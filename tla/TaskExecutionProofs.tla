-------------------------- MODULE TaskExecutionProofs --------------------------
(***************************************************************************)
(* For any tasks, options and limits: what a task leaves in the two caches *)
(* was made from what its key says, unless the project was changed in the  *)
(* meantime; the permits of the transfers are counted exactly; and the     *)
(* remote cache makes no task fail unless the user asked for that.         *)
(***************************************************************************)
EXTENDS TaskExecution, FiniteSetTheorems, TLAPS

(* The inductive invariant.  What a task knows at each place. *)
ExecScopes == {"run:id", "run:oidc", "shared"}
ExecTries == [scope : ExecScopes, attempt : 1..ExecAttempts]
ExecStoring == {"store", "export", "waitPut", "put"}
ExecUploading == {"export", "waitPut", "put"}

ExecShape(t) ==
    /\ execAt[t] \in ExecTransferring => execTry[t] \in ExecTries
    /\ execAt[t] \in ExecStoring => execMade[t] \in ExecContents
    /\ execAt[t] \in ExecUploading => execKey[t] \in ExecContents
    /\ execAt[t] = "store" => ExecUsesCache(t)
    /\ execAt[t] \in ExecBusy \cup {"store"} /\ ExecUsesCache(t) => execKey[t] \in ExecContents
ExecShapes ==
    /\ execOptions = ExecNotStarted => \A t \in ExecTasks : execAt[t] = "ready"
    /\ execTry \in [ExecTasks -> ExecTries \cup {ExecNone}]
    /\ \A t \in ExecTasks : ExecShape(t)
ExecTypes == ExecTypeOK /\ ExecShapes

(* Before the command has run the key is that of the sources; then what the command
   made is what the entry's key stands for; or the project was changed meanwhile. *)
ExecUnraced(t) == ExecProject[t] \notin execRaced
ExecKeyIsCurrent(t) ==
    /\ execAt[t] \in ExecBusy /\ ExecUsesCache(t) => execKey[t] = execSources[ExecProject[t]]
    /\ execAt[t] = "store" => execMade[t] = ExecStoreKey(t)
    /\ execAt[t] \in ExecUploading => execMade[t] = execKey[t]
ExecKeysAreCurrent == \A t \in ExecTasks : ExecUnraced(t) => ExecKeyIsCurrent(t)

--------------------------------------------------------------------------------
(* The places a step of a task may take it to. *)
ExecPlaces == {"ready", "store", "export", "waitPut", "put"} \cup ExecBusy \cup ExecEnded

LEMMA ScopesAreKnown ==
    ExecFirstScope \in ExecScopes /\ ExecWriteScope \in ExecLookupScopes
    /\ ExecLookupScopes \subseteq ExecScopes
BY DEF ExecFirstScope, ExecWriteScope, ExecLookupScopes, ExecRunScope, ExecSharedWrite,
    ExecScopes

LEMMA GoesTo ==
    ASSUME ExecTypeOK, NEW t \in ExecTasks, NEW next, ExecGo(t, next)
    PROVE  execAt'[t] = next
BY DEF ExecGo, ExecTypeOK

(* A step of one task does not touch the others, and the options stay. *)
ExecLeavesAlone(u) ==
    /\ execOptions' = execOptions
    /\ execAt'[u] = execAt[u] /\ execKey'[u] = execKey[u]
    /\ execMade'[u] = execMade[u] /\ execTry'[u] = execTry[u]

LEMMA StepsAreOfOneTask ==
    ASSUME ExecTypes, NEW t \in ExecTasks, ExecStep(t), NEW u \in ExecTasks, u # t
    PROVE  ExecLeavesAlone(u)
<1>1. ASSUME ExecBegin(t) PROVE ExecLeavesAlone(u)
    BY <1>1
    DEF ExecBegin, ExecGo, ExecLeavesAlone, ExecTypes, ExecTypeOK, ExecShapes
<1>2. ASSUME ExecBoundTask(t) PROVE ExecLeavesAlone(u)
    BY <1>2
    DEF ExecBoundTask, ExecGo, ExecLeavesAlone, ExecTypes, ExecTypeOK, ExecShapes
<1>3. ASSUME ExecRestore(t) PROVE ExecLeavesAlone(u)
    BY <1>3
    DEF ExecRestore, ExecGo, ExecLeavesAlone, ExecTypes, ExecTypeOK, ExecShapes
<1>4. ASSUME ExecConnectToRestore(t) PROVE ExecLeavesAlone(u)
    BY <1>4
    DEF ExecConnectToRestore, ExecFromWorkspace, ExecRemoteFailed, ExecGo, ExecLeavesAlone,
        ExecTypes, ExecTypeOK, ExecShapes
<1>5. ASSUME ExecAcquire(t) PROVE ExecLeavesAlone(u)
    BY <1>5
    DEF ExecAcquire, ExecGo, ExecLeavesAlone, ExecTypes, ExecTypeOK, ExecShapes
<1>6. ASSUME ExecGet(t) PROVE ExecLeavesAlone(u)
    BY <1>6
    DEF ExecGet, ExecRetry, ExecRelease, ExecRemoteFailed, ExecGo, ExecLeavesAlone,
        ExecTypes, ExecTypeOK, ExecShapes
<1>7. ASSUME ExecImport(t) PROVE ExecLeavesAlone(u)
    BY <1>7
    DEF ExecImport, ExecRelease, ExecRemoteFailed, ExecGo, ExecLeavesAlone, ExecTypes,
        ExecTypeOK, ExecShapes
<1>8. ASSUME ExecVerify(t) PROVE ExecLeavesAlone(u)
    BY <1>8
    DEF ExecVerify, ExecRelease, ExecRemoteFailed, ExecGo, ExecLeavesAlone, ExecTypes,
        ExecTypeOK, ExecShapes
<1>9. ASSUME ExecReread(t) PROVE ExecLeavesAlone(u)
    BY <1>9
    DEF ExecReread, ExecGo, ExecLeavesAlone, ExecTypes, ExecTypeOK, ExecShapes
<1>10. ASSUME ExecRun(t) PROVE ExecLeavesAlone(u)
    BY <1>10
    DEF ExecRun, ExecGo, ExecLeavesAlone, ExecTypes, ExecTypeOK, ExecShapes
<1>11. ASSUME ExecStore(t) PROVE ExecLeavesAlone(u)
    BY <1>11
    DEF ExecStore, ExecGo, ExecLeavesAlone, ExecTypes, ExecTypeOK, ExecShapes
<1>12. ASSUME ExecExport(t) PROVE ExecLeavesAlone(u)
    BY <1>12
    DEF ExecExport, ExecFromWorkspace, ExecRemoteFailed, ExecGo, ExecLeavesAlone, ExecTypes,
        ExecTypeOK, ExecShapes
<1>13. ASSUME ExecPut(t) PROVE ExecLeavesAlone(u)
    BY <1>13
    DEF ExecPut, ExecRetry, ExecRelease, ExecRemoteFailed, ExecGo, ExecLeavesAlone,
        ExecTypes, ExecTypeOK, ExecShapes
<1> QED BY <1>1, <1>2, <1>3, <1>4, <1>5, <1>6, <1>7, <1>8, <1>9, <1>10, <1>11, <1>12, <1>13
    DEF ExecStep


--------------------------------------------------------------------------------
(* The permits. *)
ExecHolders == {t \in ExecTasks : execAt[t] \in ExecTransferring}

LEMMA HoldersAreCounted ==
    /\ IsFiniteSet(ExecHolders) /\ Cardinality(ExecHolders) \in Nat
    /\ \A t \in ExecHolders : Cardinality(ExecHolders) >= 1
<1>1. IsFiniteSet(ExecHolders)
    BY ExecAssumption, FS_Subset DEF ExecAssumption, ExecHolders
<1>2. Cardinality(ExecHolders) \in Nat
    BY <1>1, FS_CardinalityType
<1>3. ASSUME NEW t \in ExecHolders PROVE Cardinality(ExecHolders) # 0
    BY <1>1, <1>3, FS_EmptySet
<1> QED BY <1>1, <1>2, <1>3

(* The types stay: a task that gives its permit back had one. *)
LEMMA TypesStayInTask ==
    ASSUME ExecTypes, ExecPermitsAreExact, NEW t \in ExecTasks, ExecStep(t)
    PROVE  ExecTypeOK'
<1>0. /\ execTransfers \in Nat
      /\ execAt[t] \in ExecTransferring => execTransfers - 1 \in Nat
    BY HoldersAreCounted DEF ExecPermitsAreExact, ExecHolders
<1>1. ASSUME ExecBegin(t) PROVE ExecTypeOK'
    <2>1. execSources[ExecProject[t]] \in ExecContents
        BY DEF ExecTypes, ExecTypeOK, ExecProjects
    <2>2. execKey' \in [ExecTasks -> ExecContents \cup {ExecNone}]
        BY <1>1, <2>1 DEF ExecBegin, ExecTypes, ExecTypeOK
    <2>3. execAt' \in [ExecTasks -> ExecPlaces] /\ execLost' \subseteq ExecTasks
        BY <1>1 DEF ExecBegin, ExecGo, ExecTypes, ExecTypeOK, ExecPlaces, ExecBusy, ExecEnded
    <2> QED BY <1>1, <2>2, <2>3 DEF ExecBegin, ExecTypes, ExecTypeOK, ExecPlaces
<1>2. ASSUME ExecBoundTask(t) PROVE ExecTypeOK'
    BY <1>2, ExecAssumption
    DEF ExecBoundTask, ExecGo, ExecTypes, ExecTypeOK, ExecShapes, ExecShape, ExecBusy,
        ExecEnded
<1>3. ASSUME ExecRestore(t) PROVE ExecTypeOK'
    BY <1>3, ExecAssumption
    DEF ExecRestore, ExecGo, ExecTypes, ExecTypeOK, ExecShapes, ExecShape, ExecBusy,
        ExecEnded
<1>4. ASSUME ExecConnectToRestore(t) PROVE ExecTypeOK'
    BY <1>4, ExecAssumption
    DEF ExecConnectToRestore, ExecFromWorkspace, ExecRemoteFailed, ExecGo, ExecTypes,
        ExecTypeOK, ExecShapes, ExecShape, ExecBusy, ExecEnded
<1>5. ASSUME ExecAcquire(t) PROVE ExecTypeOK'
    BY <1>5, ExecAssumption
    DEF ExecAcquire, ExecGo, ExecTypes, ExecTypeOK, ExecShapes, ExecShape, ExecBusy,
        ExecEnded
<1>6. ASSUME ExecGet(t) PROVE ExecTypeOK'
    <2>1. execAt' \in [ExecTasks -> ExecPlaces]
        BY <1>6 DEF ExecGet, ExecRetry, ExecRelease, ExecRemoteFailed, ExecGo, ExecTypes,
            ExecTypeOK, ExecPlaces, ExecBusy, ExecEnded
    <2>2. execTransfers' \in {execTransfers, execTransfers - 1}
        BY <1>6 DEF ExecGet, ExecRetry, ExecRelease, ExecRemoteFailed, ExecGo
    <2> QED BY <1>6, <1>0, <2>1, <2>2 DEF ExecGet, ExecTypes, ExecTypeOK, ExecPlaces,
        ExecTransferring
<1>7. ASSUME ExecImport(t) PROVE ExecTypeOK'
    <2>1. execAt' \in [ExecTasks -> ExecPlaces]
        BY <1>7 DEF ExecImport, ExecRelease, ExecRemoteFailed, ExecGo, ExecTypes, ExecTypeOK,
            ExecPlaces, ExecBusy, ExecEnded
    <2>2. execTransfers' \in {execTransfers, execTransfers - 1}
        BY <1>7 DEF ExecImport, ExecRelease, ExecRemoteFailed, ExecGo
    <2>3. execLocal' \subseteq ExecEntries
        BY <1>7 DEF ExecImport, ExecInstall, ExecFound, ExecTypes, ExecTypeOK
    <2> QED BY <1>7, <1>0, <2>1, <2>2, <2>3 DEF ExecImport, ExecTypes, ExecTypeOK, ExecPlaces,
        ExecTransferring
<1>8. ASSUME ExecVerify(t) PROVE ExecTypeOK'
    <2>1. execAt' \in [ExecTasks -> ExecPlaces]
        BY <1>8 DEF ExecVerify, ExecRelease, ExecRemoteFailed, ExecGo, ExecTypes, ExecTypeOK,
            ExecPlaces, ExecBusy, ExecEnded
    <2>2. execTransfers' \in {execTransfers, execTransfers - 1}
        BY <1>8 DEF ExecVerify, ExecRelease, ExecRemoteFailed, ExecGo
    <2> QED BY <1>8, <1>0, <2>1, <2>2 DEF ExecVerify, ExecTypes, ExecTypeOK, ExecPlaces,
        ExecTransferring
<1>9. ASSUME ExecReread(t) PROVE ExecTypeOK'
    BY <1>9, ExecAssumption
    DEF ExecReread, ExecGo, ExecTypes, ExecTypeOK, ExecShapes, ExecShape, ExecBusy,
        ExecEnded
<1>10. ASSUME ExecRun(t) PROVE ExecTypeOK'
    <2> DEFINE p == ExecProject[t]
               formats == ExecTarget[t] = "format" /\ ~execOptions.format_check
               result == [execSources[p] EXCEPT !.formatted = @ \/ formats]
    <2>1. p \in ExecProjects /\ execSources[p] \in ExecContents
        BY DEF ExecTypes, ExecTypeOK, ExecProjects
    <2>2. result \in ExecContents
        BY <2>1 DEF ExecContents
    <2>3. /\ execSources' = execSources \/ execSources' = [execSources EXCEPT ![p] = result]
          /\ execMade' = execMade \/ execMade' = [execMade EXCEPT ![t] = result]
          /\ execLocal' \subseteq execLocal
          /\ execRaced' \subseteq execRaced \cup ExecOvertaken(p, {t})
        BY <1>10 DEF ExecRun
    <2>4. execAt' \in [ExecTasks -> ExecPlaces]
        BY <1>10 DEF ExecRun, ExecGo, ExecTypes, ExecTypeOK, ExecPlaces, ExecBusy, ExecEnded
    <2> HIDE DEF p, result
    <2>5. /\ execSources' \in [ExecProjects -> ExecContents]
          /\ execMade' \in [ExecTasks -> ExecContents \cup {ExecNone}]
        BY <2>1, <2>2, <2>3 DEF ExecTypes, ExecTypeOK
    <2>6. ExecOvertaken(p, {t}) \subseteq ExecProjects
        BY DEF ExecOvertaken, ExecProjects
    <2> QED BY <1>10, <2>3, <2>4, <2>5, <2>6 DEF ExecRun, ExecTypes, ExecTypeOK, ExecPlaces
<1>11. ASSUME ExecStore(t) PROVE ExecTypeOK'
    <2>1. execMade[t] \in ExecContents /\ ExecStoreKey(t) \in ExecContents
        BY <1>11 DEF ExecStore, ExecStoreKey, ExecTypes, ExecTypeOK, ExecShapes, ExecShape,
            ExecStoring,
            ExecProjects
    <2> DEFINE entry == [task |-> t, key |-> ExecStoreKey(t), made |-> execMade[t]]
    <2>2. entry \in ExecEntries
        BY <2>1 DEF ExecEntries
    <2>3. /\ execKey' = execKey \/ execKey' = [execKey EXCEPT ![t] = ExecStoreKey(t)]
          /\ execLocal' \subseteq execLocal \cup {entry}
        BY <1>11 DEF ExecStore, ExecInstall
    <2>4. execAt' \in [ExecTasks -> ExecPlaces]
        BY <1>11 DEF ExecStore, ExecGo, ExecTypes, ExecTypeOK, ExecPlaces, ExecBusy, ExecEnded
    <2> HIDE DEF entry
    <2>5. execKey' \in [ExecTasks -> ExecContents \cup {ExecNone}] /\ execLocal' \subseteq ExecEntries
        BY <2>1, <2>2, <2>3 DEF ExecTypes, ExecTypeOK
    <2> QED BY <1>11, <2>4, <2>5 DEF ExecStore, ExecTypes, ExecTypeOK, ExecPlaces
<1>12. ASSUME ExecExport(t) PROVE ExecTypeOK'
    BY <1>12, ExecAssumption
    DEF ExecExport, ExecFromWorkspace, ExecRemoteFailed, ExecGo, ExecTypes, ExecTypeOK,
        ExecShapes, ExecShape, ExecBusy, ExecEnded
<1>13. ASSUME ExecPut(t) PROVE ExecTypeOK'
    <2>1. execAt' \in [ExecTasks -> ExecPlaces]
        BY <1>13 DEF ExecPut, ExecRetry, ExecRelease, ExecRemoteFailed, ExecGo, ExecTypes,
            ExecTypeOK, ExecPlaces, ExecBusy, ExecEnded
    <2>2. execTransfers' \in {execTransfers, execTransfers - 1}
        BY <1>13 DEF ExecPut, ExecRetry, ExecRelease, ExecRemoteFailed, ExecGo
    <2>3. [task |-> t, key |-> execKey[t], made |-> execMade[t]] \in ExecEntries
        BY <1>13 DEF ExecPut, ExecTypes, ExecShapes, ExecShape, ExecUploading, ExecStoring,
            ExecEntries
    <2>4. execTry[t].scope \in ExecScopes
        BY <1>13 DEF ExecPut, ExecTypes, ExecShapes, ExecShape, ExecTransferring, ExecTries
    <2> DEFINE Kept == [scope : ExecScopes, damaged : BOOLEAN, entry : ExecEntries]
    <2> DEFINE entry == [task |-> t, key |-> execKey[t], made |-> execMade[t]]
               kept == [scope |-> execTry[t].scope, damaged |-> FALSE, entry |-> entry]
    <2>7. execRemote \subseteq Kept /\ kept \in Kept
        BY <2>3, <2>4 DEF ExecTypes, ExecTypeOK, ExecScopes
    <2>8. ExecPublished(t) \subseteq execRemote \cup {kept}
        BY DEF ExecPublished
    <2> HIDE DEF Kept, kept
    <2>5. ExecPublished(t) \subseteq Kept
        BY <2>7, <2>8
    <2>6. execRemote' \subseteq Kept
        BY <1>13, <2>5, <2>7 DEF ExecPut
    <2> QED BY <1>13, <1>0, <2>1, <2>2, <2>6 DEF ExecPut, ExecTypes, ExecTypeOK, ExecPlaces,
        ExecScopes, ExecTransferring, Kept
<1> QED BY <1>1, <1>2, <1>3, <1>4, <1>5, <1>6, <1>7, <1>8, <1>9, <1>10, <1>11, <1>12, <1>13
    DEF ExecStep


--------------------------------------------------------------------------------
(* A request is one of its task's attempts. *)
ExecTriesStay(t) ==
    /\ execTry' \in [ExecTasks -> ExecTries \cup {ExecNone}]
    /\ execAt'[t] \in ExecTransferring => execTry'[t] \in ExecTries

LEMMA RetriesAreCounted ==
    ASSUME ExecTypes, NEW t \in ExecTasks, execAt[t] \in ExecTransferring,
           NEW next \in {"run", "succeeded"}, ExecRetry(t, next)
    PROVE  /\ ExecTriesStay(t)
           /\ execAt' = execAt \/ execAt' = [execAt EXCEPT ![t] = "error"]
                 \/ execAt' = [execAt EXCEPT ![t] = next]
<1>1. execTry \in [ExecTasks -> ExecTries \cup {ExecNone}] /\ execTry[t] \in ExecTries
    BY DEF ExecTypes, ExecShapes, ExecShape
<1>2. CASE execTry[t].attempt < ExecAttempts
    <2> DEFINE again == [execTry[t] EXCEPT !.attempt = @ + 1]
    <2>1. again \in ExecTries
        BY <1>1, <1>2, ExecAssumption DEF ExecTries, ExecAssumption
    <2>2. execTry' = [execTry EXCEPT ![t] = again] /\ execAt' = execAt
        BY <1>1, <1>2 DEF ExecRetry, ExecTries
    <2> HIDE DEF again
    <2> QED BY <1>1, <2>1, <2>2 DEF ExecTriesStay
<1>3. CASE ~(execTry[t].attempt < ExecAttempts)
    <2>1. execTry' = [execTry EXCEPT ![t] = ExecNone]
          /\ (execAt' = [execAt EXCEPT ![t] = "error"] \/ execAt' = [execAt EXCEPT ![t] = next])
        BY <1>3 DEF ExecRetry, ExecRelease, ExecRemoteFailed, ExecGo
    <2>2. execAt'[t] \notin ExecTransferring
        BY <2>1 DEF ExecTypes, ExecTypeOK, ExecTransferring
    <2> QED BY <1>1, <2>1, <2>2 DEF ExecTriesStay
<1> QED BY <1>2, <1>3

LEMMA AttemptsAreCounted ==
    ASSUME ExecTypes, NEW t \in ExecTasks, ExecStep(t)
    PROVE  ExecTriesStay(t)
<1>0. /\ execTry \in [ExecTasks -> ExecTries \cup {ExecNone}]
      /\ execAt[t] \in ExecTransferring => execTry[t] \in ExecTries
      /\ execAt \in [ExecTasks -> ExecPlaces]
    BY DEF ExecTypes, ExecTypeOK, ExecShapes, ExecShape, ExecPlaces
<1>1. ASSUME ExecBegin(t) PROVE ExecTriesStay(t)
    BY <1>1, <1>0
    DEF ExecBegin, ExecGo, ExecTriesStay, ExecTransferring
<1>2. ASSUME ExecBoundTask(t) PROVE ExecTriesStay(t)
    BY <1>2, <1>0
    DEF ExecBoundTask, ExecGo, ExecTriesStay, ExecTransferring
<1>3. ASSUME ExecRestore(t) PROVE ExecTriesStay(t)
    BY <1>3, <1>0
    DEF ExecRestore, ExecGo, ExecTriesStay, ExecTransferring
<1>4. ASSUME ExecConnectToRestore(t) PROVE ExecTriesStay(t)
    BY <1>4, <1>0
    DEF ExecConnectToRestore, ExecFromWorkspace, ExecRemoteFailed, ExecGo, ExecTriesStay,
        ExecTransferring
<1>5. ASSUME ExecAcquire(t) PROVE ExecTriesStay(t)
    <2> DEFINE first == [scope |-> IF execAt[t] = "waitGet" THEN ExecFirstScope ELSE ExecWriteScope,
                         attempt |-> 1]
    <2>1. first \in ExecTries
        BY ScopesAreKnown, ExecAssumption DEF ExecTries, ExecAssumption
    <2>2. execTry' = [execTry EXCEPT ![t] = first]
        BY <1>5 DEF ExecAcquire
    <2> HIDE DEF first
    <2> QED BY <1>0, <2>1, <2>2 DEF ExecTriesStay
<1>6. ASSUME ExecGet(t) PROVE ExecTriesStay(t)
    <2>1. CASE ExecRetry(t, "run")
        BY <1>6, <2>1, RetriesAreCounted DEF ExecGet, ExecTransferring
    <2>2. CASE execTry' = [execTry EXCEPT ![t] = [scope |-> "shared", attempt |-> 1]]
        <3> DEFINE shared == [scope |-> "shared", attempt |-> 1]
        <3>1. shared \in ExecTries
            BY ExecAssumption DEF ExecTries, ExecScopes, ExecAssumption
        <3>2. execTry' = [execTry EXCEPT ![t] = shared]
            BY <2>2
        <3> HIDE DEF shared
        <3> QED BY <1>0, <3>1, <3>2 DEF ExecTriesStay
    <2>3. CASE ExecRelease(t) /\ (ExecRemoteFailed(t, "run") \/ ExecGo(t, "run"))
        BY <1>0, <2>3 DEF ExecRelease, ExecRemoteFailed, ExecGo, ExecTriesStay, ExecTransferring
    <2>4. CASE UNCHANGED execTry
        BY <1>6, <1>0, <2>4 DEF ExecGet, ExecTriesStay, ExecTransferring
    <2> QED BY <1>6, <2>1, <2>2, <2>3, <2>4 DEF ExecGet
<1>7. ASSUME ExecImport(t) PROVE ExecTriesStay(t)
    BY <1>7, <1>0
    DEF ExecImport, ExecRelease, ExecRemoteFailed, ExecGo, ExecTriesStay, ExecTransferring
<1>8. ASSUME ExecVerify(t) PROVE ExecTriesStay(t)
    BY <1>8, <1>0
    DEF ExecVerify, ExecRelease, ExecRemoteFailed, ExecGo, ExecTriesStay, ExecTransferring
<1>9. ASSUME ExecReread(t) PROVE ExecTriesStay(t)
    BY <1>9, <1>0
    DEF ExecReread, ExecGo, ExecTriesStay, ExecTransferring
<1>10. ASSUME ExecRun(t) PROVE ExecTriesStay(t)
    BY <1>10, <1>0
    DEF ExecRun, ExecGo, ExecTriesStay, ExecTransferring
<1>11. ASSUME ExecStore(t) PROVE ExecTriesStay(t)
    BY <1>11, <1>0
    DEF ExecStore, ExecGo, ExecTriesStay, ExecTransferring
<1>12. ASSUME ExecExport(t) PROVE ExecTriesStay(t)
    BY <1>12, <1>0
    DEF ExecExport, ExecFromWorkspace, ExecRemoteFailed, ExecGo, ExecTriesStay,
        ExecTransferring
<1>13. ASSUME ExecPut(t) PROVE ExecTriesStay(t)
    <2>1. CASE ExecRetry(t, "succeeded")
        BY <1>13, <2>1, RetriesAreCounted DEF ExecPut, ExecTransferring
    <2>2. CASE ExecRelease(t) /\ (ExecRemoteFailed(t, "succeeded") \/ ExecGo(t, "succeeded"))
        BY <1>0, <2>2 DEF ExecRelease, ExecRemoteFailed, ExecGo, ExecTriesStay, ExecTransferring
    <2> QED BY <1>13, <2>1, <2>2 DEF ExecPut
<1> QED BY <1>1, <1>2, <1>3, <1>4, <1>5, <1>6, <1>7, <1>8, <1>9, <1>10, <1>11, <1>12, <1>13
    DEF ExecStep

LEMMA ShapeStays ==
    ASSUME ExecTypes, NEW t \in ExecTasks, ExecStep(t)
    PROVE  ExecShape(t)'
<1>0. ExecUsesCache(t)' = ExecUsesCache(t)
    BY DEF ExecUsesCache, ExecStep, ExecBegin, ExecBoundTask, ExecRestore,
        ExecConnectToRestore, ExecAcquire, ExecGet, ExecImport, ExecVerify, ExecReread,
        ExecRun, ExecStore, ExecExport, ExecPut
<1>00. execAt'[t] \in ExecTransferring => execTry'[t] \in ExecTries
    BY AttemptsAreCounted DEF ExecTriesStay
<1>1. ASSUME ExecBegin(t) PROVE ExecShape(t)'
    <2>1. execSources[ExecProject[t]] \in ExecContents
        BY DEF ExecTypes, ExecTypeOK, ExecProjects
    <2>2. CASE ~ExecUsesCache(t) \/ execAt'[t] = "error"
        BY <1>1, <1>0, <1>00, <2>2, GoesTo DEF ExecBegin, ExecTypes, ExecTypeOK, ExecShapes,
            ExecShape,
            ExecStoring, ExecUploading, ExecBusy
    <2>3. CASE execKey' = [execKey EXCEPT ![t] = execSources[ExecProject[t]]]
        BY <1>1, <1>0, <1>00, <2>1, <2>3 DEF ExecBegin, ExecGo, ExecTypes, ExecTypeOK,
            ExecShapes, ExecShape,
            ExecStoring, ExecUploading, ExecBusy
    <2> QED BY <1>1, <2>2, <2>3, GoesTo DEF ExecBegin, ExecTypes
<1>2. ASSUME ExecBoundTask(t) PROVE ExecShape(t)'
    BY <1>2, <1>0
    DEF ExecBoundTask, ExecGo, ExecTypes, ExecTypeOK, ExecShapes, ExecShape, ExecStoring,
        ExecUploading, ExecTransferring, ExecBusy, ExecEnded
<1>3. ASSUME ExecRestore(t) PROVE ExecShape(t)'
    BY <1>3, <1>0
    DEF ExecRestore, ExecGo, ExecTypes, ExecTypeOK, ExecShapes, ExecShape, ExecStoring,
        ExecUploading, ExecTransferring, ExecBusy, ExecEnded
<1>4. ASSUME ExecConnectToRestore(t) PROVE ExecShape(t)'
    BY <1>4, <1>0
    DEF ExecConnectToRestore, ExecFromWorkspace, ExecRemoteFailed, ExecGo, ExecTypes,
        ExecTypeOK, ExecShapes, ExecShape, ExecStoring, ExecUploading, ExecTransferring,
        ExecBusy, ExecEnded
<1>5. ASSUME ExecAcquire(t) PROVE ExecShape(t)'
    <2>1. \/ execAt[t] = "waitGet" /\ execAt'[t] = "get"
          \/ execAt[t] = "waitPut" /\ execAt'[t] = "put"
        <3>1. ExecGo(t, IF execAt[t] = "waitGet" THEN "get" ELSE "put")
            BY <1>5 DEF ExecAcquire
        <3>2. execAt'[t] = IF execAt[t] = "waitGet" THEN "get" ELSE "put"
            BY <3>1, GoesTo DEF ExecTypes
        <3> QED BY <1>5, <3>2 DEF ExecAcquire
    <2> QED BY <1>5, <1>0, <1>00, <2>1 DEF ExecAcquire, ExecTypes, ExecTypeOK, ExecShapes,
        ExecShape,
            ExecStoring, ExecUploading, ExecBusy
<1>6. ASSUME ExecGet(t) PROVE ExecShape(t)'
    <2>1. execAt[t] = "get" /\ execAt'[t] \in {"get", "import", "run", "error"}
        <3>1. CASE ExecRetry(t, "run")
            BY <1>6, <3>1, RetriesAreCounted
            DEF ExecGet, ExecTransferring, ExecTypes, ExecTypeOK
        <3>2. CASE ~ExecRetry(t, "run")
            BY <1>6, <3>2 DEF ExecGet, ExecRelease, ExecRemoteFailed, ExecGo, ExecTypes,
                ExecTypeOK
        <3> QED BY <3>1, <3>2
    <2> QED BY <1>6, <1>0, <1>00, <2>1 DEF ExecGet, ExecTypes, ExecTypeOK, ExecShapes,
        ExecShape,
            ExecStoring, ExecUploading, ExecBusy
<1>7. ASSUME ExecImport(t) PROVE ExecShape(t)'
    BY <1>7, <1>0
    DEF ExecImport, ExecRelease, ExecRemoteFailed, ExecGo, ExecTypes, ExecTypeOK,
        ExecShapes, ExecShape, ExecStoring, ExecUploading, ExecTransferring, ExecBusy,
        ExecEnded
<1>8. ASSUME ExecVerify(t) PROVE ExecShape(t)'
    BY <1>8, <1>0
    DEF ExecVerify, ExecRelease, ExecRemoteFailed, ExecGo, ExecTypes, ExecTypeOK,
        ExecShapes, ExecShape, ExecStoring, ExecUploading, ExecTransferring, ExecBusy,
        ExecEnded
<1>9. ASSUME ExecReread(t) PROVE ExecShape(t)'
    BY <1>9, <1>0
    DEF ExecReread, ExecGo, ExecTypes, ExecTypeOK, ExecShapes, ExecShape, ExecStoring,
        ExecUploading, ExecTransferring, ExecBusy, ExecEnded
<1>10. ASSUME ExecRun(t) PROVE ExecShape(t)'
    <2>1. \/ execAt'[t] \in {"failed", "succeeded"}
          \/ execAt'[t] = "store" /\ ExecStores(t)
        <3>1. ExecGo(t, "failed") \/ ExecGo(t, IF ExecStores(t) THEN "store" ELSE "succeeded")
            BY <1>10 DEF ExecRun
        <3>2. \/ execAt'[t] = "failed"
              \/ execAt'[t] = IF ExecStores(t) THEN "store" ELSE "succeeded"
            BY <3>1, GoesTo DEF ExecTypes
        <3> QED BY <3>2
    <2>2. CASE execAt'[t] # "store"
        BY <1>00, <2>1, <2>2 DEF ExecTypes, ExecTypeOK, ExecShapes, ExecShape,
            ExecStoring, ExecUploading, ExecBusy
    <2>3. CASE execAt'[t] = "store"
        <3> DEFINE p == ExecProject[t]
                   formats == ExecTarget[t] = "format" /\ ~execOptions.format_check
                   result == [execSources[p] EXCEPT !.formatted = @ \/ formats]
        <3>1. p \in ExecProjects /\ execSources[p] \in ExecContents
            BY DEF ExecTypes, ExecTypeOK, ExecProjects
        <3>2. result \in ExecContents
            BY <3>1 DEF ExecContents
        <3>3. execMade' = [execMade EXCEPT ![t] = result]
            BY <1>10, <2>3 DEF ExecRun, ExecGo, ExecTypes, ExecTypeOK
        <3> HIDE DEF result
        <3>4. execMade'[t] \in ExecContents
            BY <3>2, <3>3 DEF ExecTypes, ExecTypeOK
        <3>5. ExecUsesCache(t) /\ execKey'[t] = execKey[t] /\ execAt[t] = "run"
            BY <1>10, <2>1, <2>3 DEF ExecStores, ExecRun
        <3> QED BY <1>0, <1>00, <2>3, <3>4, <3>5 DEF ExecTypes, ExecTypeOK, ExecShapes,
            ExecShape,
            ExecStoring, ExecUploading, ExecBusy
    <2> QED BY <2>2, <2>3
<1>11. ASSUME ExecStore(t) PROVE ExecShape(t)'
    <2>1. /\ execMade'[t] = execMade[t] /\ execMade[t] \in ExecContents
          /\ \/ execAt'[t] = "succeeded"
             \/ execAt'[t] = "export" /\ execKey'[t] = ExecStoreKey(t)
        <3> DEFINE next == IF ExecEligible /\ ~execOptions.remote_cache_read_only
                             THEN "export" ELSE "succeeded"
        <3>1. \/ ExecGo(t, "succeeded")
              \/ ExecGo(t, next) /\ execKey' = [execKey EXCEPT ![t] = ExecStoreKey(t)]
            BY <1>11 DEF ExecStore
        <3>2. next \in {"export", "succeeded"}
            OBVIOUS
        <3> HIDE DEF next
        <3>3. \/ execAt'[t] = "succeeded"
              \/ execAt'[t] = next /\ execKey'[t] = ExecStoreKey(t)
            BY <3>1, GoesTo DEF ExecTypes, ExecTypeOK
        <3> QED BY <1>11, <3>2, <3>3 DEF ExecStore, ExecTypes, ExecShapes, ExecShape,
            ExecStoring
    <2>2. ExecStoreKey(t) \in ExecContents
        BY <1>11 DEF ExecStore, ExecStoreKey, ExecTypes, ExecTypeOK, ExecShapes, ExecShape,
            ExecStoring, ExecProjects
    <2> QED BY <1>0, <1>00, <2>1, <2>2 DEF ExecTypes, ExecTypeOK, ExecShapes, ExecShape,
            ExecStoring, ExecUploading, ExecBusy
<1>12. ASSUME ExecExport(t) PROVE ExecShape(t)'
    BY <1>12, <1>0
    DEF ExecExport, ExecFromWorkspace, ExecRemoteFailed, ExecGo, ExecTypes, ExecTypeOK,
        ExecShapes, ExecShape, ExecStoring, ExecUploading, ExecTransferring, ExecBusy,
        ExecEnded
<1>13. ASSUME ExecPut(t) PROVE ExecShape(t)'
    <2>1. execAt[t] = "put" /\ execAt'[t] \in {"put", "succeeded", "error"}
        <3>1. CASE ExecRetry(t, "succeeded")
            BY <1>13, <3>1, RetriesAreCounted
            DEF ExecPut, ExecTransferring, ExecTypes, ExecTypeOK
        <3>2. CASE ~ExecRetry(t, "succeeded")
            BY <1>13, <3>2 DEF ExecPut, ExecRelease, ExecRemoteFailed, ExecGo, ExecTypes,
                ExecTypeOK
        <3> QED BY <3>1, <3>2
    <2> QED BY <1>13, <1>0, <1>00, <2>1 DEF ExecPut, ExecTypes, ExecTypeOK, ExecShapes,
        ExecShape,
            ExecStoring, ExecUploading, ExecBusy
<1> QED BY <1>1, <1>2, <1>3, <1>4, <1>5, <1>6, <1>7, <1>8, <1>9, <1>10, <1>11, <1>12, <1>13
    DEF ExecStep


--------------------------------------------------------------------------------
(* All the steps. *)
LEMMA TypesStay ==
    ASSUME ExecTypes, ExecPermitsAreExact, [ExecNext]_execVars
    PROVE  ExecTypes'
<1>1. ASSUME NEW t \in ExecTasks, ExecStep(t) PROVE ExecTypes'
    <2>1. ExecTypeOK' /\ execTry' \in [ExecTasks -> ExecTries \cup {ExecNone}]
        BY <1>1, TypesStayInTask, AttemptsAreCounted DEF ExecTriesStay
    <2>2. ASSUME NEW u \in ExecTasks PROVE ExecShape(u)'
        <3>1. CASE u = t
            BY <1>1, <3>1, ShapeStays
        <3>2. CASE u # t
            <4>1. ExecLeavesAlone(u)
                BY <1>1, <3>2, StepsAreOfOneTask
            <4>2. ExecUsesCache(u)' = ExecUsesCache(u)
                BY <4>1 DEF ExecLeavesAlone, ExecUsesCache
            <4> QED BY <4>1, <4>2 DEF ExecLeavesAlone, ExecTypes, ExecShapes, ExecShape
        <3> QED BY <3>1, <3>2
    <2>3. execOptions # ExecNotStarted /\ execOptions' = execOptions
        BY <1>1 DEF ExecTypes, ExecShapes, ExecStep, ExecBegin, ExecBoundTask, ExecRestore,
            ExecConnectToRestore, ExecAcquire, ExecGet, ExecImport, ExecVerify, ExecReread,
            ExecRun, ExecStore, ExecExport, ExecPut
    <2> QED BY <2>1, <2>2, <2>3 DEF ExecTypes, ExecShapes
<1>2. ASSUME ExecStart PROVE ExecTypes'
    <2>1. /\ execOptions' \in ExecOptions /\ \A t \in ExecTasks : execAt[t] = "ready"
          /\ UNCHANGED <<execAt, execSources, execKey, execMade, execTry, execTransfers, execClient,
                         execRaced, execLost>>
        BY <1>2 DEF ExecStart, ExecTypes, ExecShapes
    <2>2. PICK t \in ExecTasks, damaged \in BOOLEAN, known \in BOOLEAN :
             LET content == [ExecFresh EXCEPT !.formatted = ExecTarget[t] = "format"]
                 entry == [task |-> t, key |-> content, made |-> content] IN
             /\ execRemote' = IF known THEN {[scope |-> "shared", damaged |-> damaged, entry |-> entry]}
                                       ELSE {}
             /\ execLocal' = IF damaged /\ ~known THEN {entry} ELSE {}
        BY <1>2 DEF ExecStart
    <2> DEFINE content == [ExecFresh EXCEPT !.formatted = ExecTarget[t] = "format"]
               entry == [task |-> t, key |-> content, made |-> content]
               record == [scope |-> "shared", damaged |-> damaged, entry |-> entry]
    <2>3. content \in ExecContents
        <3> DEFINE formatted == ExecTarget[t] = "format"
        <3>1. content = [version |-> 0, formatted |-> formatted]
            BY DEF ExecFresh
        <3>2. formatted \in BOOLEAN
            OBVIOUS
        <3> HIDE DEF formatted
        <3> QED BY <3>1, <3>2, ExecAssumption DEF ExecContents, ExecAssumption
    <2>4. execRemote' \subseteq {record} /\ execLocal' \subseteq {entry}
        BY <2>2
    <2> HIDE DEF content
    <2>5. entry \in ExecEntries
        BY <2>3 DEF ExecEntries
    <2> HIDE DEF entry
    <2>6. record \in [scope : ExecScopes, damaged : BOOLEAN, entry : ExecEntries]
        BY <2>5 DEF ExecScopes
    <2> HIDE DEF record
    <2>7. ExecTypeOK'
        BY <2>1, <2>4, <2>5, <2>6 DEF ExecTypes, ExecTypeOK, ExecScopes
    <2>8. execOptions' # ExecNotStarted
        BY <2>1, ExecAssumption DEF ExecAssumption, ExecNotStarted
    <2> QED BY <2>1, <2>7, <2>8 DEF ExecTypes, ExecShapes, ExecShape, ExecTransferring,
        ExecStoring, ExecUploading, ExecBusy
<1>3. ASSUME NEW p \in ExecProjects, ExecEdit(p) PROVE ExecTypes'
    <2> DEFINE saved == [version |-> execSources[p].version + 1, formatted |-> FALSE]
    <2>1. execSources[p] \in ExecContents
        BY DEF ExecTypes, ExecTypeOK
    <2>2. saved \in ExecContents
        BY <1>3, <2>1, ExecAssumption DEF ExecEdit, ExecContents, ExecAssumption
    <2>3. execSources' = [execSources EXCEPT ![p] = saved]
        BY <1>3 DEF ExecEdit
    <2>4. ExecOvertaken(p, {}) \subseteq ExecProjects
        BY DEF ExecOvertaken, ExecProjects
    <2> HIDE DEF saved
    <2>5. ExecTypeOK'
        BY <1>3, <2>2, <2>3, <2>4 DEF ExecEdit, ExecTypes, ExecTypeOK
    <2>6. \A u \in ExecTasks : ExecUsesCache(u)' = ExecUsesCache(u)
        BY <1>3 DEF ExecEdit, ExecUsesCache
    <2> QED BY <1>3, <2>5, <2>6 DEF ExecEdit, ExecTypes, ExecShapes, ExecShape
<1>4. ASSUME NEW e \in execLocal, ExecPrune(e) PROVE ExecTypes'
    BY <1>4 DEF ExecPrune, ExecTypes, ExecTypeOK, ExecShapes, ExecShape, ExecUsesCache
<1>5. ASSUME UNCHANGED execVars PROVE ExecTypes'
    BY <1>5 DEF execVars, ExecTypes, ExecTypeOK, ExecShapes, ExecShape, ExecUsesCache
<1> QED BY <1>1, <1>2, <1>3, <1>4, <1>5 DEF ExecNext

(* A permit that is taken counts one more, one that is given back one less. *)
LEMMA CountsFollowPlaces ==
    ASSUME NEW S \in SUBSET ExecTasks, NEW T \in SUBSET ExecTasks, NEW t \in ExecTasks
    PROVE  /\ t \notin S /\ T = S \cup {t} => Cardinality(T) = Cardinality(S) + 1
           /\ t \in S /\ T = S \ {t} => Cardinality(T) = Cardinality(S) - 1
<1>1. IsFiniteSet(S)
    BY ExecAssumption, FS_Subset DEF ExecAssumption
<1> QED BY <1>1, FS_AddElement, FS_RemoveElement

LEMMA PermitsMove ==
    ASSUME ExecTypes, NEW t \in ExecTasks, ExecStep(t)
    PROVE  \/ /\ execTransfers' = execTransfers
              /\ execAt'[t] \in ExecTransferring <=> execAt[t] \in ExecTransferring
           \/ /\ execTransfers' = execTransfers + 1 /\ ExecMayTransfer
              /\ execAt[t] \notin ExecTransferring /\ execAt'[t] \in ExecTransferring
           \/ /\ execTransfers' = execTransfers - 1
              /\ execAt[t] \in ExecTransferring /\ execAt'[t] \notin ExecTransferring
<1> DEFINE Moves ==
           \/ /\ execTransfers' = execTransfers
              /\ execAt'[t] \in ExecTransferring <=> execAt[t] \in ExecTransferring
           \/ /\ execTransfers' = execTransfers + 1 /\ ExecMayTransfer
              /\ execAt[t] \notin ExecTransferring /\ execAt'[t] \in ExecTransferring
           \/ /\ execTransfers' = execTransfers - 1
              /\ execAt[t] \in ExecTransferring /\ execAt'[t] \notin ExecTransferring
<1>0. execAt \in [ExecTasks -> ExecPlaces]
    BY DEF ExecTypes, ExecTypeOK, ExecPlaces
<1>1. ASSUME ExecBegin(t) PROVE Moves
    BY <1>1, <1>0
    DEF ExecBegin, ExecGo, ExecTransferring
<1>2. ASSUME ExecBoundTask(t) PROVE Moves
    BY <1>2, <1>0
    DEF ExecBoundTask, ExecGo, ExecTransferring
<1>3. ASSUME ExecRestore(t) PROVE Moves
    BY <1>3, <1>0
    DEF ExecRestore, ExecGo, ExecTransferring
<1>4. ASSUME ExecConnectToRestore(t) PROVE Moves
    BY <1>4, <1>0
    DEF ExecConnectToRestore, ExecFromWorkspace, ExecRemoteFailed, ExecGo, ExecTransferring
<1>5. ASSUME ExecAcquire(t) PROVE Moves
    BY <1>5, <1>0
    DEF ExecAcquire, ExecGo, ExecTransferring
<1>6. ASSUME ExecGet(t) PROVE Moves
    BY <1>6, <1>0
    DEF ExecGet, ExecRetry, ExecRelease, ExecRemoteFailed, ExecGo, ExecTransferring
<1>7. ASSUME ExecImport(t) PROVE Moves
    BY <1>7, <1>0
    DEF ExecImport, ExecRelease, ExecRemoteFailed, ExecGo, ExecTransferring
<1>8. ASSUME ExecVerify(t) PROVE Moves
    BY <1>8, <1>0
    DEF ExecVerify, ExecRelease, ExecRemoteFailed, ExecGo, ExecTransferring
<1>9. ASSUME ExecReread(t) PROVE Moves
    BY <1>9, <1>0
    DEF ExecReread, ExecGo, ExecTransferring
<1>10. ASSUME ExecRun(t) PROVE Moves
    BY <1>10, <1>0
    DEF ExecRun, ExecGo, ExecTransferring
<1>11. ASSUME ExecStore(t) PROVE Moves
    BY <1>11, <1>0
    DEF ExecStore, ExecGo, ExecTransferring
<1>12. ASSUME ExecExport(t) PROVE Moves
    BY <1>12, <1>0
    DEF ExecExport, ExecFromWorkspace, ExecRemoteFailed, ExecGo, ExecTransferring
<1>13. ASSUME ExecPut(t) PROVE Moves
    BY <1>13, <1>0
    DEF ExecPut, ExecRetry, ExecRelease, ExecRemoteFailed, ExecGo, ExecTransferring
<1> QED BY <1>1, <1>2, <1>3, <1>4, <1>5, <1>6, <1>7, <1>8, <1>9, <1>10, <1>11, <1>12, <1>13
    DEF ExecStep

LEMMA PermitsStay ==
    ASSUME ExecTypes, ExecPermitsAreExact, [ExecNext]_execVars
    PROVE  ExecPermitsAreExact'
<1>1. ASSUME NEW t \in ExecTasks, ExecStep(t) PROVE ExecPermitsAreExact'
    <2>1. \A u \in ExecTasks : u # t => execAt'[u] = execAt[u]
        BY <1>1, StepsAreOfOneTask DEF ExecLeavesAlone
    <2> DEFINE most == IF ExecMaxTransfers = 0 THEN 1 ELSE ExecMaxTransfers
    <2>2. most \in Nat /\ execTransfers \in Nat
        BY ExecAssumption DEF ExecAssumption, ExecTypes, ExecTypeOK
    <2>3. execTransfers = Cardinality(ExecHolders) /\ execTransfers <= most
        BY DEF ExecPermitsAreExact, ExecHolders
    <2>4. CASE /\ execTransfers' = execTransfers
               /\ execAt'[t] \in ExecTransferring <=> execAt[t] \in ExecTransferring
        <3>1. ExecHolders' = ExecHolders
            BY <2>1, <2>4 DEF ExecHolders
        <3> QED BY <2>3, <2>4, <3>1 DEF ExecPermitsAreExact, ExecHolders
    <2>5. CASE /\ execTransfers' = execTransfers + 1 /\ ExecMayTransfer
               /\ execAt[t] \notin ExecTransferring /\ execAt'[t] \in ExecTransferring
        <3>1. t \notin ExecHolders /\ ExecHolders' = ExecHolders \cup {t}
            BY <2>1, <2>5 DEF ExecHolders
        <3>2. Cardinality(ExecHolders') = Cardinality(ExecHolders) + 1
            BY <3>1, CountsFollowPlaces DEF ExecHolders
        <3>3. execTransfers < most /\ execTransfers' = execTransfers + 1
            BY <2>5 DEF ExecMayTransfer
        <3> HIDE DEF most
        <3>4. execTransfers' <= most
            BY <2>2, <3>3
        <3> QED BY <2>3, <2>5, <3>2, <3>4 DEF ExecPermitsAreExact, ExecHolders, most
    <2>6. CASE /\ execTransfers' = execTransfers - 1
               /\ execAt[t] \in ExecTransferring /\ execAt'[t] \notin ExecTransferring
        <3>1. t \in ExecHolders /\ ExecHolders' = ExecHolders \ {t}
            BY <2>1, <2>6 DEF ExecHolders
        <3>2. Cardinality(ExecHolders') = Cardinality(ExecHolders) - 1
            BY <3>1, CountsFollowPlaces DEF ExecHolders
        <3>3. execTransfers' <= most
            BY <2>2, <2>3, <2>6
        <3> QED BY <2>3, <2>6, <3>2, <3>3 DEF ExecPermitsAreExact, ExecHolders
    <2> QED BY <1>1, <2>4, <2>5, <2>6, PermitsMove
<1>2. ASSUME UNCHANGED <<execAt, execTransfers>> PROVE ExecPermitsAreExact'
    BY <1>2 DEF ExecPermitsAreExact
<1> QED BY <1>1, <1>2 DEF ExecNext, ExecStart, ExecEdit, ExecPrune, execVars

--------------------------------------------------------------------------------
(* What is changed under a task is noted as raced. *)
LEMMA ChangesAreNoted ==
    ASSUME ExecTypes, NEW t \in ExecTasks, ExecStep(t)
    PROVE  /\ execRaced \subseteq execRaced' /\ execLost \subseteq execLost'
           /\ \A u \in ExecTasks \ {t} :
                execAt[u] \in ExecBusy \cup {"store"} /\ ExecProject[u] \notin execRaced' =>
                    execSources'[ExecProject[u]] = execSources[ExecProject[u]]
<1>1. CASE ExecRun(t)
    <2> DEFINE p == ExecProject[t]
               formats == ExecTarget[t] = "format" /\ ~execOptions.format_check
               result == [execSources[p] EXCEPT !.formatted = @ \/ formats]
    <2>1. /\ execLost' = execLost
          /\ \/ UNCHANGED <<execSources, execRaced>>
             \/ /\ execSources' = [execSources EXCEPT ![p] = result]
                /\ execRaced' = IF result = execSources[p] THEN execRaced
                                  ELSE execRaced \cup ExecOvertaken(p, {t})
        BY <1>1 DEF ExecRun
    <2> HIDE DEF result
    <2>2. ASSUME NEW u \in ExecTasks \ {t}, execAt[u] \in ExecBusy \cup {"store"},
                 ExecProject[u] \notin execRaced'
          PROVE  execSources'[ExecProject[u]] = execSources[ExecProject[u]]
        <3>1. CASE ExecProject[u] = p /\ result # execSources[p] /\ execRaced' # execRaced
            <4>1. p \in ExecOvertaken(p, {t})
                BY <2>2, <3>1 DEF ExecOvertaken
            <4> QED BY <2>1, <2>2, <3>1, <4>1
        <3>2. CASE ExecProject[u] # p \/ result = execSources[p]
            <4>1. ExecProject[u] \in ExecProjects /\ execSources \in [ExecProjects -> ExecContents]
                BY DEF ExecTypes, ExecTypeOK, ExecProjects
            <4> QED BY <2>1, <3>2, <4>1
        <3>3. CASE ExecProject[u] = p /\ result # execSources[p] /\ execRaced' = execRaced
            <4>1. p \in ExecOvertaken(p, {t})
                BY <2>2, <3>3 DEF ExecOvertaken
            <4> QED BY <2>1, <2>2, <3>3, <4>1
        <3> QED BY <3>1, <3>2, <3>3
    <2> QED BY <2>1, <2>2
<1>2. CASE ~ExecRun(t)
    BY <1>2 DEF ExecStep, ExecBegin, ExecBoundTask, ExecRestore, ExecConnectToRestore,
        ExecAcquire, ExecGet, ExecImport, ExecVerify, ExecReread, ExecStore, ExecExport,
        ExecPut
<1> QED BY <1>1, <1>2

LEMMA StepOptions ==
    ASSUME NEW t \in ExecTasks, ExecStep(t)
    PROVE  execOptions' = execOptions
BY DEF ExecStep, ExecBegin, ExecBoundTask, ExecRestore, ExecConnectToRestore, ExecAcquire,
    ExecGet, ExecImport, ExecVerify, ExecReread, ExecRun, ExecStore, ExecExport, ExecPut

(* The key of the task that takes the step. *)
LEMMA KeyStays ==
    ASSUME ExecTypes, NEW t \in ExecTasks, ExecStep(t), ExecUnraced(t) => ExecKeyIsCurrent(t),
           ExecUnraced(t)'
    PROVE  ExecKeyIsCurrent(t)'
<1>0. ExecUnraced(t) /\ ExecKeyIsCurrent(t)
    BY ChangesAreNoted DEF ExecUnraced
<1>00. ExecUsesCache(t)' = ExecUsesCache(t) /\ execAt \in [ExecTasks -> ExecPlaces]
    BY StepOptions DEF ExecUsesCache, ExecTypes, ExecTypeOK, ExecPlaces
<1>1. ASSUME ExecBegin(t) PROVE ExecKeyIsCurrent(t)'
    <2>1. CASE ~ExecUsesCache(t) \/ execAt'[t] = "error"
        BY <1>1, <1>00, <2>1, GoesTo DEF ExecBegin, ExecTypes, ExecKeyIsCurrent, ExecStoreKey,
            ExecBusy, ExecUploading
    <2>2. CASE execKey' = [execKey EXCEPT ![t] = execSources[ExecProject[t]]]
        <3>1. execKey'[t] = execSources'[ExecProject[t]]
            BY <1>1, <2>2 DEF ExecBegin, ExecTypes, ExecTypeOK
        <3>2. execAt'[t] \in {"run", "restore", "error"}
            BY <1>1, <1>00 DEF ExecBegin, ExecGo
        <3> QED BY <3>1, <3>2 DEF ExecKeyIsCurrent, ExecStoreKey, ExecBusy, ExecUploading
    <2> QED BY <1>1, <2>1, <2>2, GoesTo DEF ExecBegin, ExecTypes
<1>2. ASSUME ExecBoundTask(t) PROVE ExecKeyIsCurrent(t)'
    BY <1>2, <1>0, <1>00
    DEF ExecBoundTask, ExecGo, ExecKeyIsCurrent, ExecStoreKey, ExecBusy, ExecUploading
<1>3. ASSUME ExecRestore(t) PROVE ExecKeyIsCurrent(t)'
    BY <1>3, <1>0, <1>00
    DEF ExecRestore, ExecGo, ExecKeyIsCurrent, ExecStoreKey, ExecBusy, ExecUploading
<1>4. ASSUME ExecConnectToRestore(t) PROVE ExecKeyIsCurrent(t)'
    BY <1>4, <1>0, <1>00
    DEF ExecConnectToRestore, ExecFromWorkspace, ExecRemoteFailed, ExecGo, ExecKeyIsCurrent,
        ExecStoreKey, ExecBusy, ExecUploading
<1>5. ASSUME ExecAcquire(t) PROVE ExecKeyIsCurrent(t)'
    <2>1. \/ execAt[t] = "waitGet" /\ execAt'[t] = "get"
          \/ execAt[t] = "waitPut" /\ execAt'[t] = "put"
        BY <1>5, <1>00 DEF ExecAcquire, ExecGo
    <2> QED BY <1>5, <1>0, <1>00, <2>1 DEF ExecAcquire, ExecKeyIsCurrent, ExecStoreKey,
        ExecBusy, ExecUploading
<1>6. ASSUME ExecGet(t) PROVE ExecKeyIsCurrent(t)'
    <2>1. execAt[t] = "get" /\ execAt'[t] \in {"get", "import", "run", "error"}
        <3>1. CASE ExecRetry(t, "run")
            BY <1>6, <3>1, RetriesAreCounted
            DEF ExecGet, ExecTransferring, ExecTypes, ExecTypeOK
        <3>2. CASE ~ExecRetry(t, "run")
            BY <1>6, <3>2 DEF ExecGet, ExecRelease, ExecRemoteFailed, ExecGo, ExecTypes,
                ExecTypeOK
        <3> QED BY <3>1, <3>2
    <2> QED BY <1>6, <1>0, <1>00, <2>1 DEF ExecGet, ExecKeyIsCurrent, ExecStoreKey, ExecBusy,
        ExecUploading
<1>7. ASSUME ExecImport(t) PROVE ExecKeyIsCurrent(t)'
    BY <1>7, <1>0, <1>00
    DEF ExecImport, ExecRelease, ExecRemoteFailed, ExecGo, ExecKeyIsCurrent, ExecStoreKey,
        ExecBusy, ExecUploading
<1>8. ASSUME ExecVerify(t) PROVE ExecKeyIsCurrent(t)'
    BY <1>8, <1>0, <1>00
    DEF ExecVerify, ExecRelease, ExecRemoteFailed, ExecGo, ExecKeyIsCurrent, ExecStoreKey,
        ExecBusy, ExecUploading
<1>9. ASSUME ExecReread(t) PROVE ExecKeyIsCurrent(t)'
    BY <1>9, <1>0, <1>00
    DEF ExecReread, ExecGo, ExecKeyIsCurrent, ExecStoreKey, ExecBusy, ExecUploading
<1>10. ASSUME ExecRun(t) PROVE ExecKeyIsCurrent(t)'
    <2> DEFINE p == ExecProject[t]
               formats == ExecTarget[t] = "format" /\ ~execOptions.format_check
               result == [execSources[p] EXCEPT !.formatted = @ \/ formats]
    <2>1. \/ execAt'[t] \in {"failed", "succeeded"}
          \/ execAt'[t] = "store" /\ ExecUsesCache(t)
        BY <1>10, <1>00 DEF ExecRun, ExecGo, ExecStores
    <2>2. CASE execAt'[t] = "store" /\ ExecUsesCache(t)
        <3>1. p \in ExecProjects /\ execSources[p] \in ExecContents
            BY DEF ExecTypes, ExecTypeOK, ExecProjects
        <3>2. /\ execMade' = [execMade EXCEPT ![t] = result]
              /\ execSources' = [execSources EXCEPT ![p] = result]
              /\ execKey' = execKey /\ execAt[t] = "run"
            BY <1>10, <1>00, <2>2 DEF ExecRun, ExecGo
        <3>3. ~formats => result = execSources[p]
            BY <3>1 DEF ExecContents
        <3>4. execKey[t] = execSources[p]
            BY <1>0, <2>2, <3>2 DEF ExecKeyIsCurrent, ExecBusy
        <3> HIDE DEF result
        <3>5. execMade'[t] = result /\ execSources'[p] = result
            BY <3>1, <3>2 DEF ExecTypes, ExecTypeOK
        <3>6. execMade'[t] = ExecStoreKey(t)'
            <4>1. CASE ExecTarget[t] = "format"
                BY <3>5, <4>1 DEF ExecStoreKey
            <4>2. CASE ExecTarget[t] # "format"
                BY <3>2, <3>3, <3>4, <3>5, <4>2 DEF ExecStoreKey
            <4> QED BY <4>1, <4>2
        <3> QED BY <2>2, <3>6 DEF ExecKeyIsCurrent, ExecBusy, ExecUploading
    <2>3. CASE execAt'[t] \in {"failed", "succeeded"}
        BY <2>3 DEF ExecKeyIsCurrent, ExecBusy, ExecUploading
    <2> QED BY <2>1, <2>2, <2>3
<1>11. ASSUME ExecStore(t) PROVE ExecKeyIsCurrent(t)'
    <2>1. execMade[t] = ExecStoreKey(t) /\ execMade' = execMade
        BY <1>11, <1>0 DEF ExecStore, ExecKeyIsCurrent
    <2>2. \/ execAt'[t] = "succeeded"
          \/ execAt'[t] \in {"export", "succeeded"} /\ execKey'[t] = ExecStoreKey(t)
        BY <1>11, <1>00 DEF ExecStore, ExecGo, ExecTypes, ExecTypeOK
    <2> QED BY <2>1, <2>2 DEF ExecKeyIsCurrent, ExecBusy, ExecUploading
<1>12. ASSUME ExecExport(t) PROVE ExecKeyIsCurrent(t)'
    BY <1>12, <1>0, <1>00
    DEF ExecExport, ExecFromWorkspace, ExecRemoteFailed, ExecGo, ExecKeyIsCurrent,
        ExecStoreKey, ExecBusy, ExecUploading
<1>13. ASSUME ExecPut(t) PROVE ExecKeyIsCurrent(t)'
    <2>1. execAt[t] = "put" /\ execAt'[t] \in {"put", "succeeded", "error"}
        <3>1. CASE ExecRetry(t, "succeeded")
            BY <1>13, <3>1, RetriesAreCounted
            DEF ExecPut, ExecTransferring, ExecTypes, ExecTypeOK
        <3>2. CASE ~ExecRetry(t, "succeeded")
            BY <1>13, <3>2 DEF ExecPut, ExecRelease, ExecRemoteFailed, ExecGo, ExecTypes,
                ExecTypeOK
        <3> QED BY <3>1, <3>2
    <2> QED BY <1>13, <1>0, <1>00, <2>1 DEF ExecPut, ExecKeyIsCurrent, ExecStoreKey, ExecBusy,
        ExecUploading
<1> QED BY <1>1, <1>2, <1>3, <1>4, <1>5, <1>6, <1>7, <1>8, <1>9, <1>10, <1>11, <1>12, <1>13
    DEF ExecStep

LEMMA KeysStay ==
    ASSUME ExecTypes, ExecKeysAreCurrent, [ExecNext]_execVars
    PROVE  ExecKeysAreCurrent'
<1>1. ASSUME NEW t \in ExecTasks, ExecStep(t), NEW u \in ExecTasks, ExecUnraced(u)'
      PROVE  ExecKeyIsCurrent(u)'
    <2>1. ExecUnraced(u) => ExecKeyIsCurrent(u)
        BY DEF ExecKeysAreCurrent
    <2>2. CASE u = t
        BY <1>1, <2>1, <2>2, KeyStays
    <2>3. CASE u # t
        <3>1. ExecLeavesAlone(u) /\ ExecKeyIsCurrent(u)
            BY <1>1, <2>1, <2>3, StepsAreOfOneTask, ChangesAreNoted DEF ExecUnraced
        <3>2. ExecUsesCache(u)' = ExecUsesCache(u)
            BY <3>1 DEF ExecLeavesAlone, ExecUsesCache
        <3>3. execAt[u] \in ExecBusy \cup {"store"} =>
                  execSources'[ExecProject[u]] = execSources[ExecProject[u]]
            BY <1>1, <2>3, ChangesAreNoted DEF ExecUnraced
        <3> QED BY <3>1, <3>2, <3>3 DEF ExecLeavesAlone, ExecKeyIsCurrent, ExecStoreKey
    <2> QED BY <2>2, <2>3
<1>2. ASSUME ExecStart PROVE ExecKeysAreCurrent'
    <2>1. \A t \in ExecTasks : execAt'[t] = "ready"
        BY <1>2 DEF ExecStart, ExecTypes, ExecShapes
    <2> QED BY <2>1 DEF ExecKeysAreCurrent, ExecKeyIsCurrent, ExecBusy, ExecUploading
<1>3. ASSUME NEW p \in ExecProjects, ExecEdit(p), NEW u \in ExecTasks, ExecUnraced(u)'
      PROVE  ExecKeyIsCurrent(u)'
    <2>1. ExecKeyIsCurrent(u) /\ ExecUsesCache(u)' = ExecUsesCache(u)
          /\ execAt' = execAt /\ execKey' = execKey /\ execMade' = execMade
        BY <1>3 DEF ExecEdit, ExecKeysAreCurrent, ExecUnraced, ExecUsesCache
    <2>2. execAt[u] \in ExecBusy \cup {"store"} => ExecProject[u] # p
        BY <1>3 DEF ExecEdit, ExecOvertaken, ExecUnraced
    <2>3. ExecProject[u] # p => execSources'[ExecProject[u]] = execSources[ExecProject[u]]
        BY <1>3 DEF ExecEdit, ExecTypes, ExecTypeOK, ExecProjects
    <2> QED BY <2>1, <2>2, <2>3 DEF ExecKeyIsCurrent, ExecStoreKey
<1>4. ASSUME UNCHANGED <<execOptions, execAt, execSources, execKey, execMade, execRaced>>
      PROVE  ExecKeysAreCurrent'
    BY <1>4 DEF ExecKeysAreCurrent, ExecKeyIsCurrent, ExecUnraced, ExecUsesCache, ExecStoreKey
<1> QED BY <1>1, <1>2, <1>3, <1>4
    DEF ExecNext, ExecKeysAreCurrent, ExecPrune, execVars

--------------------------------------------------------------------------------
(* An entry was made from what its key says. *)
ExecSound(e) == e.made # e.key => ExecProject[e.task] \in execRaced

LEMMA EntriesStay ==
    ASSUME ExecTypes, ExecKeysAreCurrent, ExecEntriesMatchTheirKeys, [ExecNext]_execVars
    PROVE  ExecEntriesMatchTheirKeys'
<1>0. /\ \A e \in execLocal : ExecSound(e)
      /\ \A r \in execRemote : ExecSound(r.entry)
    BY DEF ExecEntriesMatchTheirKeys, ExecSound
<1>1. ASSUME NEW t \in ExecTasks, ExecStep(t) PROVE ExecEntriesMatchTheirKeys'
    <2>1. execRaced \subseteq execRaced'
        BY <1>1, ChangesAreNoted
    <2>2. ASSUME ExecImport(t) PROVE ExecEntriesMatchTheirKeys'
        <3>1. execLocal' \subseteq execLocal \cup {r.entry : r \in execRemote} /\ execRemote' = execRemote
            BY <2>2 DEF ExecImport, ExecInstall, ExecFound
        <3> QED BY <1>0, <2>1, <3>1 DEF ExecEntriesMatchTheirKeys, ExecSound
    <2>3. ASSUME ExecRun(t) PROVE ExecEntriesMatchTheirKeys'
        <3>1. execLocal' \subseteq execLocal /\ execRemote' = execRemote
            BY <2>3 DEF ExecRun
        <3> QED BY <1>0, <2>1, <3>1 DEF ExecEntriesMatchTheirKeys, ExecSound
    <2>4. ASSUME ExecStore(t) PROVE ExecEntriesMatchTheirKeys'
        <3> DEFINE entry == [task |-> t, key |-> ExecStoreKey(t), made |-> execMade[t]]
        <3>1. execLocal' \subseteq execLocal \cup {entry} /\ execRemote' = execRemote
            BY <2>4 DEF ExecStore, ExecInstall
        <3>2. ExecUnraced(t) => execMade[t] = ExecStoreKey(t)
            BY <2>4 DEF ExecStore, ExecKeysAreCurrent, ExecKeyIsCurrent
        <3>3. ExecSound(entry)
            BY <3>2 DEF ExecSound, ExecUnraced
        <3> HIDE DEF entry
        <3> QED BY <1>0, <2>1, <3>1, <3>3 DEF ExecEntriesMatchTheirKeys, ExecSound
    <2>5. ASSUME ExecPut(t) PROVE ExecEntriesMatchTheirKeys'
        <3> DEFINE entry == [task |-> t, key |-> execKey[t], made |-> execMade[t]]
                   record == [scope |-> execTry[t].scope, damaged |-> FALSE, entry |-> entry]
        <3>1. execRemote' \subseteq execRemote \cup {record} /\ execLocal' = execLocal
            BY <2>5 DEF ExecPut, ExecPublished
        <3>2. ExecUnraced(t) => execMade[t] = execKey[t]
            BY <2>5 DEF ExecPut, ExecKeysAreCurrent, ExecKeyIsCurrent, ExecUploading
        <3>3. ExecSound(entry) /\ record.entry = entry
            BY <3>2 DEF ExecSound, ExecUnraced
        <3> HIDE DEF entry, record
        <3> QED BY <1>0, <2>1, <3>1, <3>3 DEF ExecEntriesMatchTheirKeys, ExecSound
    <2>6. ASSUME UNCHANGED <<execLocal, execRemote>> PROVE ExecEntriesMatchTheirKeys'
        BY <2>1, <2>6 DEF ExecEntriesMatchTheirKeys
    <2> QED BY <1>1, <2>2, <2>3, <2>4, <2>5, <2>6
        DEF ExecStep, ExecBegin, ExecBoundTask, ExecRestore, ExecConnectToRestore, ExecAcquire,
            ExecGet, ExecVerify, ExecReread, ExecExport
<1>2. ASSUME ExecStart PROVE ExecEntriesMatchTheirKeys'
    <2>1. \A e \in execLocal' \cup {r.entry : r \in execRemote'} : e.made = e.key
        BY <1>2 DEF ExecStart
    <2> QED BY <2>1 DEF ExecEntriesMatchTheirKeys
<1>3. ASSUME NEW p \in ExecProjects, ExecEdit(p) PROVE ExecEntriesMatchTheirKeys'
    BY <1>3 DEF ExecEdit, ExecEntriesMatchTheirKeys
<1>4. ASSUME NEW e \in execLocal, ExecPrune(e) PROVE ExecEntriesMatchTheirKeys'
    BY <1>4 DEF ExecPrune, ExecEntriesMatchTheirKeys
<1>5. ASSUME UNCHANGED execVars PROVE ExecEntriesMatchTheirKeys'
    BY <1>5 DEF execVars, ExecEntriesMatchTheirKeys
<1> QED BY <1>1, <1>2, <1>3, <1>4, <1>5 DEF ExecNext

--------------------------------------------------------------------------------
(* Why a task is an error. *)
ExecWarns(t) ==
    /\ execAt[t] \in ExecBusy \cup {"ready"} => execMade[t] = ExecNone
    /\ execAt[t] = "error" =>
         \/ ExecFatal
         \/ execMade[t] = ExecNone /\ t \in execLost

LEMMA WarningStays ==
    ASSUME ExecTypes, NEW t \in ExecTasks, ExecWarns(t), ExecStep(t)
    PROVE  ExecWarns(t)'
<1>0. /\ execOptions' = execOptions /\ ExecFatal' = ExecFatal /\ execLost \subseteq execLost'
      /\ execAt \in [ExecTasks -> ExecPlaces]
    BY StepOptions, ChangesAreNoted DEF ExecFatal, ExecTypes, ExecTypeOK, ExecPlaces
<1>1. ASSUME ExecBegin(t) PROVE ExecWarns(t)'
    <2>1. /\ execAt[t] = "ready" /\ execAt'[t] \in {"error", "run", "restore"}
          /\ execAt'[t] = "error" => ExecFatal \/ t \in execLost'
        BY <1>1, <1>0 DEF ExecBegin, ExecGo, ExecFatal
    <2> QED BY <1>1, <1>0, <2>1 DEF ExecBegin, ExecWarns, ExecBusy
<1>2. ASSUME ExecBoundTask(t) PROVE ExecWarns(t)'
    BY <1>2, <1>0
    DEF ExecBoundTask, ExecGo, ExecWarns, ExecBusy
<1>3. ASSUME ExecRestore(t) PROVE ExecWarns(t)'
    BY <1>3, <1>0
    DEF ExecRestore, ExecGo, ExecWarns, ExecBusy
<1>4. ASSUME ExecConnectToRestore(t) PROVE ExecWarns(t)'
    BY <1>4, <1>0
    DEF ExecConnectToRestore, ExecFromWorkspace, ExecRemoteFailed, ExecGo, ExecWarns,
        ExecBusy
<1>5. ASSUME ExecAcquire(t) PROVE ExecWarns(t)'
    <2>1. execAt'[t] \in {"get", "put"} /\ execAt[t] \in {"waitGet", "waitPut"}
          /\ (execAt'[t] = "get" => execAt[t] = "waitGet")
        BY <1>5, <1>0 DEF ExecAcquire, ExecGo
    <2> QED BY <1>5, <1>0, <2>1 DEF ExecAcquire, ExecWarns, ExecBusy
<1>6. ASSUME ExecGet(t) PROVE ExecWarns(t)'
    <2>1. /\ execAt[t] = "get" /\ execAt'[t] \in {"get", "import", "run", "error"}
          /\ execAt'[t] = "error" => ExecFatal
        <3>1. CASE ExecRetry(t, "run")
            BY <1>6, <1>0, <3>1 DEF ExecGet, ExecRetry, ExecRelease, ExecRemoteFailed, ExecGo
        <3>2. CASE ~ExecRetry(t, "run")
            BY <1>6, <1>0, <3>2 DEF ExecGet, ExecRelease, ExecRemoteFailed, ExecGo
        <3> QED BY <3>1, <3>2
    <2> QED BY <1>6, <1>0, <2>1 DEF ExecGet, ExecWarns, ExecBusy
<1>7. ASSUME ExecImport(t) PROVE ExecWarns(t)'
    BY <1>7, <1>0
    DEF ExecImport, ExecRelease, ExecRemoteFailed, ExecGo, ExecWarns, ExecBusy
<1>8. ASSUME ExecVerify(t) PROVE ExecWarns(t)'
    BY <1>8, <1>0
    DEF ExecVerify, ExecRelease, ExecRemoteFailed, ExecGo, ExecWarns, ExecBusy
<1>9. ASSUME ExecReread(t) PROVE ExecWarns(t)'
    BY <1>9, <1>0
    DEF ExecReread, ExecGo, ExecWarns, ExecBusy
<1>10. ASSUME ExecRun(t) PROVE ExecWarns(t)'
    <2>1. execAt'[t] \in {"failed", "succeeded", "store"}
        BY <1>10, <1>0 DEF ExecRun, ExecGo
    <2> QED BY <2>1 DEF ExecWarns, ExecBusy
<1>11. ASSUME ExecStore(t) PROVE ExecWarns(t)'
    <2>1. execAt'[t] \in {"succeeded", "export"}
        BY <1>11, <1>0 DEF ExecStore, ExecGo
    <2> QED BY <2>1 DEF ExecWarns, ExecBusy
<1>12. ASSUME ExecExport(t) PROVE ExecWarns(t)'
    BY <1>12, <1>0
    DEF ExecExport, ExecFromWorkspace, ExecRemoteFailed, ExecGo, ExecWarns, ExecBusy
<1>13. ASSUME ExecPut(t) PROVE ExecWarns(t)'
    <2>1. /\ execAt[t] = "put" /\ execAt'[t] \in {"put", "succeeded", "error"}
          /\ execAt'[t] = "error" => ExecFatal
        <3>1. CASE ExecRetry(t, "succeeded")
            BY <1>13, <1>0, <3>1 DEF ExecPut, ExecRetry, ExecRelease, ExecRemoteFailed, ExecGo
        <3>2. CASE ~ExecRetry(t, "succeeded")
            BY <1>13, <1>0, <3>2 DEF ExecPut, ExecRelease, ExecRemoteFailed, ExecGo
        <3> QED BY <3>1, <3>2
    <2> QED BY <1>13, <1>0, <2>1 DEF ExecPut, ExecWarns, ExecBusy
<1> QED BY <1>1, <1>2, <1>3, <1>4, <1>5, <1>6, <1>7, <1>8, <1>9, <1>10, <1>11, <1>12, <1>13
    DEF ExecStep

ExecIInv ==
    /\ ExecTypes
    /\ ExecPermitsAreExact
    /\ ExecKeysAreCurrent
    /\ ExecEntriesMatchTheirKeys
    /\ \A t \in ExecTasks : ExecWarns(t)

LEMMA WarningsStay ==
    ASSUME ExecTypes, \A t \in ExecTasks : ExecWarns(t), [ExecNext]_execVars
    PROVE  (\A t \in ExecTasks : ExecWarns(t))'
<1>1. ASSUME NEW t \in ExecTasks, ExecStep(t), NEW u \in ExecTasks PROVE ExecWarns(u)'
    <2>1. CASE u = t
        BY <1>1, <2>1, WarningStays
    <2>2. CASE u # t
        <3>1. ExecLeavesAlone(u) /\ execLost \subseteq execLost' /\ ExecWarns(u)
            BY <1>1, <2>2, StepsAreOfOneTask, ChangesAreNoted
        <3>2. ExecFatal' = ExecFatal
            BY <3>1 DEF ExecLeavesAlone, ExecFatal
        <3> QED BY <3>1, <3>2 DEF ExecLeavesAlone, ExecWarns
    <2> QED BY <2>1, <2>2
<1>2. ASSUME ExecStart, NEW u \in ExecTasks PROVE ExecWarns(u)'
    BY <1>2 DEF ExecStart, ExecTypes, ExecShapes, ExecWarns
<1>3. ASSUME UNCHANGED <<execOptions, execAt, execMade, execLost>>, NEW u \in ExecTasks
      PROVE  ExecWarns(u)'
    BY <1>3 DEF ExecWarns, ExecFatal
<1> QED BY <1>1, <1>2, <1>3 DEF ExecNext, ExecEdit, ExecPrune, execVars

LEMMA ExecInduction == ExecSpec => []ExecIInv
<1>1. ExecInit => ExecIInv
    <2> SUFFICES ASSUME ExecInit PROVE ExecIInv
        OBVIOUS
    <2>1. ExecFresh \in ExecContents
        BY ExecAssumption DEF ExecFresh, ExecContents, ExecAssumption
    <2>2. execSources \in [ExecProjects -> ExecContents]
        BY <2>1 DEF ExecInit
    <2>3. ExecTypes
        BY <2>2 DEF ExecInit, ExecTypes, ExecTypeOK, ExecShapes, ExecShape, ExecTransferring,
            ExecStoring, ExecUploading, ExecBusy
    <2>4. ExecHolders = {} /\ execTransfers = 0
        BY DEF ExecInit, ExecHolders, ExecTransferring
    <2>5. Cardinality(ExecHolders) = 0
        BY <2>4, FS_EmptySet
    <2>6. ExecPermitsAreExact
        BY <2>4, <2>5, ExecAssumption DEF ExecPermitsAreExact, ExecHolders, ExecAssumption
    <2>7. ExecKeysAreCurrent /\ ExecEntriesMatchTheirKeys
        BY DEF ExecInit, ExecKeysAreCurrent, ExecKeyIsCurrent, ExecBusy, ExecUploading,
            ExecEntriesMatchTheirKeys
    <2>8. \A t \in ExecTasks : ExecWarns(t)
        BY DEF ExecInit, ExecWarns
    <2> QED BY <2>3, <2>6, <2>7, <2>8 DEF ExecIInv
<1>2. ExecIInv /\ [ExecNext]_execVars => ExecIInv'
    BY TypesStay, PermitsStay, KeysStay, EntriesStay, WarningsStay DEF ExecIInv
<1> QED BY <1>1, <1>2, PTL DEF ExecSpec

(* Types of the tasks, the caches and the requests. *)
THEOREM ExecutionIsTyped == ExecSpec => []ExecTypeOK
<1>1. ExecIInv => ExecTypeOK
    BY DEF ExecIInv, ExecTypes
<1> QED BY <1>1, ExecInduction, PTL

(* execute_single_task and the remote client are safe: entries were made from what
   their keys say unless the project was changed meanwhile, permits come back, a
   remote cache that is not required fails no task, and uploads can be found. *)
THEOREM ExecutionIsSafe == ExecSpec => []ExecSafety
<1>1. ExecIInv => ExecSafety
    <2> SUFFICES ASSUME ExecIInv PROVE ExecSafety
        OBVIOUS
    <2>1. ExecRemoteFailuresWarn
        BY DEF ExecIInv, ExecWarns, ExecRemoteFailuresWarn, ExecFatal
    <2>2. ExecUploadsCanBeFound
        BY ScopesAreKnown DEF ExecUploadsCanBeFound
    <2> QED BY <2>1, <2>2 DEF ExecIInv, ExecSafety
<1> QED BY <1>1, ExecInduction, PTL
================================================================================

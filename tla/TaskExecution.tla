----------------------------- MODULE TaskExecution -----------------------------
(***************************************************************************)
(* execute_single_task of src/commands/run.rs with the client of the       *)
(* remote cache (src/remote_cache.rs).  The tasks of one gomo process run  *)
(* concurrently: each computes its key, restores the entry of that key     *)
(* from the local cache or else from the remote one, or runs its command   *)
(* and stores the result in both.  The transfers share a limited number    *)
(* of permits.  Meanwhile the user edits files, other processes prune the  *)
(* local cache, and the remote cache answers late, wrongly or not at all.  *)
(*                                                                         *)
(* A project's sources are a version and whether they are formatted; a key *)
(* stands for what was hashed.  An entry records what it was really made   *)
(* from, which nobody can read off the entry itself.                       *)
(***************************************************************************)
EXTENDS Naturals, FiniteSets

CONSTANTS
    ExecTasks,          \* the tasks of this process, one target of one project each
    ExecProject,        \* [ExecTasks -> projects]
    ExecTarget,         \* [ExecTasks -> {"build", "test", "format", "clean"}]
    ExecOptions,        \* the command lines, environments and configurations considered
    ExecMaxTransfers,   \* max_concurrent_transfers
    ExecAttempts,       \* 1 + BACKOFFS.len(): how often a request is sent
    ExecMaxEdits        \* bound: how often the user changes a project's sources

ASSUME ExecAssumption ==
    /\ ExecAttempts \in Nat \ {0} /\ ExecMaxTransfers \in Nat /\ ExecMaxEdits \in Nat
    /\ DOMAIN ExecProject = ExecTasks
    /\ ExecTarget \in [ExecTasks -> {"build", "test", "format", "clean"}]
    /\ IsFiniteSet(ExecTasks) /\ [started |-> FALSE] \notin ExecOptions

VARIABLES
    execOptions,    \* the options of this invocation, once it has started
    execAt,         \* where each task is
    execSources,    \* [projects -> what its sources are]
    execKey,        \* the key each task has computed
    execMade,       \* what each task's command has read
    execLocal,      \* the entries of the local cache
    execRemote,     \* the entries of the remote cache, by scope
    execTry,        \* the request each task is on: its scope and its attempt
    execTransfers,  \* the active permits of the limiter
    execClient,     \* the client of REMOTE_CLIENT_CACHE
    execRaced,      \* history: the projects that changed between a key and its entry
    execLost        \* history: the tasks that failed for a reason of this machine

execVars == <<execOptions, execAt, execSources, execKey, execMade, execLocal, execRemote,
              execTry, execTransfers, execClient, execRaced, execLost>>

ExecProjects == {ExecProject[t] : t \in ExecTasks}
ExecNotStarted == [started |-> FALSE]
ExecContents == [version : 0..ExecMaxEdits, formatted : BOOLEAN]
ExecFresh == [version |-> 0, formatted |-> FALSE]
ExecNone == [none |-> TRUE]
ExecEntries == [task : ExecTasks, key : ExecContents, made : ExecContents]

ExecEnded == {"hit", "succeeded", "failed", "error"}
ExecTransferring == {"get", "import", "verify", "put"}
ExecBusy == {"restore", "client", "waitGet", "get", "import", "verify", "reread", "run"}

--------------------------------------------------------------------------------
(* The questions the options answer.                                       *)

ExecUsesCache(t) ==
    /\ ExecTarget[t] # "clean"                       \* Target::supports_cache
    /\ ~(ExecTarget[t] = "format" /\ execOptions.format_check)
    /\ ~execOptions.no_cache
ExecStores(t) == ExecUsesCache(t) /\ ~execOptions.no_store
ExecEligible == ~execOptions.no_remote_cache /\ execOptions.target_remote
ExecFatal == execOptions.require_remote_cache \/ execOptions.failure = "error"

ExecCredentials == execOptions.token \/ execOptions.oidc # "none"

(* The scopes a restore looks in, in order, and the one a store writes.     *)
ExecRunScope ==
    IF execOptions.run_id THEN {"run:id"}
    ELSE IF ~execOptions.token /\ execOptions.oidc # "none" THEN {"run:oidc"} ELSE {}
ExecLookupScopes == ExecRunScope \cup {"shared"}
ExecSharedWrite == ~execOptions.token /\ execOptions.oidc = "trusted"
ExecWriteScope_Run == IF ExecSharedWrite THEN "shared" ELSE "run:oidc"
ExecWriteScope ==
    IF ExecSharedWrite \/ ExecRunScope = {} THEN "shared"
    ELSE CHOOSE scope \in ExecRunScope : TRUE

ExecFirstScope == IF ExecRunScope = {} THEN "shared" ELSE CHOOSE scope \in ExecRunScope : TRUE

--------------------------------------------------------------------------------
(* Steps of a task.                                                        *)

ExecGo(t, next) == execAt' = [execAt EXCEPT ![t] = next]
ExecLocalHas(t) == \E e \in execLocal : e.task = t /\ e.key = execKey[t]
ExecInstall(e) == {x \in execLocal : <<x.task, x.key>> # <<e.task, e.key>>} \cup {e}

ExecInit ==
    /\ execOptions = ExecNotStarted
    /\ execAt = [t \in ExecTasks |-> "ready"]
    /\ execSources = [p \in ExecProjects |-> ExecFresh]
    /\ execKey = [t \in ExecTasks |-> ExecNone] /\ execMade = [t \in ExecTasks |-> ExecNone]
    /\ execLocal = {} /\ execRemote = {}
    /\ execTry = [t \in ExecTasks |-> ExecNone]
    /\ execTransfers = 0 /\ execClient = "none"
    /\ execRaced = {} /\ execLost = {}

(* gomo starts.  Earlier runs have left entries of the first version: a     *)
(* sound one or none in the local cache, and any in the remote one.  A      *)
(* remote entry is damaged when its bundle does not pass the import.        *)
ExecStart ==
    /\ execOptions = ExecNotStarted
    /\ execOptions' \in ExecOptions
    /\ \E t \in ExecTasks, damaged \in BOOLEAN, known \in BOOLEAN :
         LET content == [ExecFresh EXCEPT !.formatted = ExecTarget[t] = "format"]
             entry == [task |-> t, key |-> content, made |-> content] IN
         /\ execRemote' = IF known THEN {[scope |-> "shared", damaged |-> damaged, entry |-> entry]}
                                   ELSE {}
         /\ execLocal' = IF damaged /\ ~known THEN {entry} ELSE {}
    /\ UNCHANGED <<execAt, execSources, execKey, execMade, execTry, execTransfers, execClient,
                   execRaced, execLost>>

(* The beginning of execute_single_task, up to the first cache lookup.      *)
ExecBegin(t) ==
    /\ execOptions # ExecNotStarted /\ execAt[t] = "ready" /\ ~execOptions.bound
    /\ \/ /\ execOptions.require_remote_cache /\ ~execOptions.no_remote_cache
          /\ ~execOptions.configured
          /\ ExecGo(t, "error") /\ UNCHANGED <<execKey, execLost>>
       \/ /\ ~(/\ execOptions.require_remote_cache /\ ~execOptions.no_remote_cache
               /\ ~execOptions.configured)
          /\ \/ /\ ~ExecUsesCache(t)
                /\ ExecGo(t, "run") /\ UNCHANGED <<execKey, execLost>>
             \/ /\ ExecUsesCache(t)
                /\ execKey' = [execKey EXCEPT ![t] = execSources[ExecProject[t]]]
                /\ ExecGo(t, IF execOptions.no_restore THEN "run" ELSE "restore")
                /\ UNCHANGED execLost
             \/ /\ ExecUsesCache(t)         \* a file cannot be read
                /\ ExecGo(t, "error") /\ execLost' = execLost \cup {t}
                /\ UNCHANGED execKey
    /\ UNCHANGED <<execOptions, execSources, execMade, execLocal, execRemote, execTry,
                   execTransfers, execClient, execRaced>>

(* A target bound to a named task runs that task instead, with a cache of   *)
(* its own; re-entering the same target is an error.                        *)
ExecBoundTask(t) ==
    /\ execOptions # ExecNotStarted /\ execAt[t] = "ready" /\ execOptions.bound
    /\ \/ ExecGo(t, "succeeded") /\ UNCHANGED execLost
       \/ ExecGo(t, "failed") /\ UNCHANGED execLost
       \/ ExecGo(t, "error") /\ execLost' = execLost \cup {t}
    /\ UNCHANGED <<execOptions, execSources, execKey, execMade, execLocal, execRemote, execTry,
                   execTransfers, execClient, execRaced>>

(* restore_cached_task: a hit, a miss, or an error of the file system.      *)
ExecRestore(t) ==
    /\ execAt[t] = "restore"
    /\ \/ /\ ExecLocalHas(t) /\ ExecGo(t, "hit") /\ UNCHANGED execLost
       \/ /\ ExecLocalHas(t) /\ ExecGo(t, "error") /\ execLost' = execLost \cup {t}
       \/ /\ ~ExecLocalHas(t) /\ ExecGo(t, IF ExecEligible THEN "client" ELSE "run")
          /\ UNCHANGED execLost
    /\ UNCHANGED <<execOptions, execSources, execKey, execMade, execLocal, execRemote, execTry,
                   execTransfers, execClient, execRaced>>

(* What a failing remote lookup or upload means for the task: with warnings *)
(* the lookup is a miss and the upload is forgotten.                        *)
ExecRemoteFailed_Always(t, otherwise) == ExecGo(t, "error")
ExecRemoteFailed(t, otherwise) == ExecGo(t, IF ExecFatal THEN "error" ELSE otherwise)

(* RemoteCacheClient::from_workspace: the process's client, or a new one    *)
(* with the token of the environment or one exchanged for an OIDC token.    *)
ExecFromWorkspace(t, none, some, failed) ==
    \/ ~execOptions.configured /\ ExecGo(t, none) /\ UNCHANGED execClient
    \/ execOptions.configured /\ execClient = "built" /\ ExecGo(t, some) /\ UNCHANGED execClient
    \/ /\ execOptions.configured /\ execClient = "none" /\ ExecCredentials
       /\ ExecGo(t, some) /\ execClient' = "built"
    \/ /\ execOptions.configured /\ execClient = "none" /\ ~execOptions.token
       /\ ExecRemoteFailed(t, failed) /\ UNCHANGED execClient

ExecConnectToRestore(t) ==
    /\ execAt[t] = "client"
    /\ ExecFromWorkspace(t, "run", "waitGet", "run")
    /\ UNCHANGED <<execOptions, execSources, execKey, execMade, execLocal, execRemote, execTry,
                   execTransfers, execRaced, execLost>>

(* TransferPermit::acquire: wait while the limiter is full.                 *)
ExecMayTransfer_OneMore ==
    execTransfers <= IF ExecMaxTransfers = 0 THEN 1 ELSE ExecMaxTransfers
ExecMayTransfer == execTransfers < IF ExecMaxTransfers = 0 THEN 1 ELSE ExecMaxTransfers

ExecAcquire(t) ==
    /\ execAt[t] \in {"waitGet", "waitPut"} /\ ExecMayTransfer
    /\ execTransfers' = execTransfers + 1
    /\ ExecGo(t, IF execAt[t] = "waitGet" THEN "get" ELSE "put")
    /\ execTry' = [execTry EXCEPT ![t] =
         [scope |-> IF execAt[t] = "waitGet" THEN ExecFirstScope ELSE ExecWriteScope,
          attempt |-> 1]]
    /\ UNCHANGED <<execOptions, execSources, execKey, execMade, execLocal, execRemote,
                   execClient, execRaced, execLost>>

ExecRelease_Twice(t) ==
    execTransfers' = execTransfers - 2 /\ execTry' = [execTry EXCEPT ![t] = ExecNone]
ExecRelease(t) ==
    execTransfers' = execTransfers - 1 /\ execTry' = [execTry EXCEPT ![t] = ExecNone]

(* send_with_retry, one transient answer or broken connection.              *)
ExecRetry_Forever(t, otherwise) ==
    /\ execTry' = [execTry EXCEPT ![t].attempt = (@ % ExecAttempts) + 1]
    /\ UNCHANGED <<execTransfers, execAt>>
ExecRetry(t, otherwise) ==
    IF execTry[t].attempt < ExecAttempts
      THEN /\ execTry' = [execTry EXCEPT ![t].attempt = @ + 1]
           /\ UNCHANGED <<execTransfers, execAt>>
      ELSE ExecRelease(t) /\ ExecRemoteFailed(t, otherwise)

(* restore_entry: the answer for one scope.  404 goes on to the next scope; *)
(* any other refusal, a missing header, an oversized entry and a body that  *)
(* breaks off end the restore with an error.                                *)
ExecFound(t) == {r \in execRemote : /\ r.scope = execTry[t].scope
                                    /\ r.entry.task = t /\ r.entry.key = execKey[t]}
ExecGet(t) ==
    /\ execAt[t] = "get"
    /\ \/ ExecRetry(t, "run")
       \/ ExecRelease(t) /\ ExecRemoteFailed(t, "run")
       \/ /\ ExecFound(t) = {} /\ execTry[t].scope # "shared"
          /\ execTry' = [execTry EXCEPT ![t] = [scope |-> "shared", attempt |-> 1]]
          /\ UNCHANGED <<execTransfers, execAt>>
       \/ /\ ExecFound(t) = {} /\ execTry[t].scope = "shared"
          /\ ExecRelease(t) /\ ExecGo(t, "run")
       \/ /\ ExecFound(t) # {} /\ ExecGo(t, "import")
          /\ UNCHANGED <<execTry, execTransfers>>
    /\ UNCHANGED <<execOptions, execSources, execKey, execMade, execLocal, execRemote,
                   execClient, execRaced, execLost>>

(* The import of the downloaded bundle: a damaged one is reported and not   *)
(* installed, and the installation of a sound one may fail.                 *)
ExecImport(t) ==
    /\ execAt[t] = "import"
    /\ \E r \in ExecFound(t) :
         \/ /\ ~r.damaged /\ execLocal' = ExecInstall(r.entry)
            /\ ExecGo(t, "verify") /\ UNCHANGED <<execTry, execTransfers>>
         \/ ExecRelease(t) /\ ExecRemoteFailed(t, "run") /\ UNCHANGED execLocal
    /\ UNCHANGED <<execOptions, execSources, execKey, execMade, execRemote, execClient,
                   execRaced, execLost>>

(* The result digest of the entry now in the local cache, then the release. *)
ExecVerify(t) ==
    /\ execAt[t] = "verify" /\ ExecRelease(t)
    /\ IF ExecLocalHas(t) THEN ExecGo(t, "reread") ELSE ExecRemoteFailed(t, "run")
    /\ UNCHANGED <<execOptions, execSources, execKey, execMade, execLocal, execRemote,
                   execClient, execRaced, execLost>>

(* The imported entry is restored like a local one; if it is gone the task  *)
(* fails, whatever remote failures mean.                                    *)
ExecReread(t) ==
    /\ execAt[t] = "reread"
    /\ \/ ExecLocalHas(t) /\ ExecGo(t, "hit") /\ UNCHANGED execLost
       \/ ExecGo(t, "error") /\ execLost' = execLost \cup {t}
    /\ UNCHANGED <<execOptions, execSources, execKey, execMade, execLocal, execRemote, execTry,
                   execTransfers, execClient, execRaced>>

(* A project whose sources change while another of its tasks is between its *)
(* key and its entry.                                                       *)
ExecOvertaken(p, writers) ==
    {ExecProject[t] : t \in {u \in ExecTasks \ writers :
       ExecProject[u] = p /\ execAt[u] \in ExecBusy \cup {"store"}}}

(* The command.  It reads the sources as they are now; format rewrites them *)
(* and a successful clean removes the build entries of its project.         *)
ExecBuildEntries(p) == {e \in execLocal : ExecProject[e.task] = p /\ ExecTarget[e.task] = "build"}
ExecRun(t) ==
    LET p == ExecProject[t]
        formats == ExecTarget[t] = "format" /\ ~execOptions.format_check
        result == [execSources[p] EXCEPT !.formatted = @ \/ formats]
    IN
    /\ execAt[t] = "run"
    /\ \/ /\ ExecGo(t, "failed")
          /\ UNCHANGED <<execSources, execMade, execLocal, execRaced>>
       \/ /\ execSources' = [execSources EXCEPT ![p] = result]
          /\ execMade' = [execMade EXCEPT ![t] = result]
          /\ execRaced' = IF result = execSources[p] THEN execRaced
                            ELSE execRaced \cup ExecOvertaken(p, {t})
          /\ execLocal' = IF ExecTarget[t] = "clean" /\ ~execOptions.no_cache
                            THEN execLocal \ ExecBuildEntries(p) ELSE execLocal
          /\ ExecGo(t, IF ExecStores(t) THEN "store" ELSE "succeeded")
    /\ UNCHANGED <<execOptions, execKey, execRemote, execTry, execTransfers, execClient,
                   execLost>>

(* The key to store under: format has changed what it hashed.               *)
ExecStoreKey_Before(t) == execKey[t]
ExecStoreKey(t) ==
    IF ExecTarget[t] = "format" THEN execSources[ExecProject[t]] ELSE execKey[t]

(* store_successful_task.  A key or a store that fails is only reported.    *)
ExecStore(t) ==
    LET entry == [task |-> t, key |-> ExecStoreKey(t), made |-> execMade[t]] IN
    /\ execAt[t] = "store"
    /\ \/ ExecGo(t, "succeeded") /\ UNCHANGED <<execKey, execLocal>>
       \/ /\ execKey' = [execKey EXCEPT ![t] = entry.key]
          /\ execLocal' = ExecInstall(entry)
          /\ ExecGo(t, IF ExecEligible /\ ~execOptions.remote_cache_read_only
                         THEN "export" ELSE "succeeded")
    /\ UNCHANGED <<execOptions, execSources, execMade, execRemote, execTry, execTransfers,
                   execClient, execRaced, execLost>>

(* RemoteCacheClient::store up to the transfer: a client, nothing to do in  *)
(* read-only mode, or a bundle of the entry that is in the local cache.     *)
ExecExport(t) ==
    /\ execAt[t] = "export"
    /\ \/ ExecFromWorkspace(t, "succeeded",
                            IF execOptions.mode = "read-only" THEN "succeeded" ELSE "waitPut",
                            "succeeded")
          /\ (ExecLocalHas(t) \/ execOptions.mode = "read-only" \/ ~execOptions.configured)
       \/ /\ execOptions.configured /\ execOptions.mode # "read-only"
          /\ ExecRemoteFailed(t, "succeeded") /\ UNCHANGED execClient
    /\ UNCHANGED <<execOptions, execSources, execKey, execMade, execLocal, execRemote, execTry,
                   execTransfers, execRaced, execLost>>

(* store_bundle: 201, 200 and 409 all end the upload, and an entry that is  *)
(* already there stays.  The answer to a request that did publish may be    *)
(* lost, and the request is then sent again.                                *)
ExecPublished(t) ==
    LET taken == \E r \in execRemote : /\ r.scope = execTry[t].scope
                                       /\ r.entry.task = t /\ r.entry.key = execKey[t]
        entry == [task |-> t, key |-> execKey[t], made |-> execMade[t]]
    IN IF taken THEN execRemote
       ELSE execRemote \cup {[scope |-> execTry[t].scope, damaged |-> FALSE, entry |-> entry]}
ExecPut(t) ==
    /\ execAt[t] = "put"
    /\ \/ /\ execRemote' = ExecPublished(t)
          /\ ExecRelease(t) /\ ExecGo(t, "succeeded")
       \/ /\ execRemote' \in {execRemote, ExecPublished(t)}
          /\ ExecRetry(t, "succeeded")
       \/ /\ UNCHANGED execRemote                      \* 401, 403, 413
          /\ ExecRelease(t) /\ ExecRemoteFailed(t, "succeeded")
    /\ UNCHANGED <<execOptions, execSources, execKey, execMade, execLocal, execClient,
                   execRaced, execLost>>

(* The user saves a file of a project.                                      *)
ExecEdit(p) ==
    /\ execOptions # ExecNotStarted
    /\ execSources[p].version < ExecMaxEdits
    /\ execSources' = [execSources EXCEPT ![p] =
         [version |-> @.version + 1, formatted |-> FALSE]]
    /\ execRaced' = execRaced \cup ExecOvertaken(p, {})
    /\ UNCHANGED <<execOptions, execAt, execKey, execMade, execLocal, execRemote, execTry,
                   execTransfers, execClient, execLost>>

(* Another process prunes an entry of the local cache.                      *)
ExecPrune(e) ==
    /\ execLocal' = execLocal \ {e}
    /\ UNCHANGED <<execOptions, execAt, execSources, execKey, execMade, execRemote, execTry,
                   execTransfers, execClient, execRaced, execLost>>

ExecStep(t) ==
    \/ ExecBegin(t) \/ ExecBoundTask(t) \/ ExecRestore(t) \/ ExecConnectToRestore(t) \/ ExecAcquire(t)
    \/ ExecGet(t) \/ ExecImport(t) \/ ExecVerify(t) \/ ExecReread(t)
    \/ ExecRun(t) \/ ExecStore(t) \/ ExecExport(t) \/ ExecPut(t)

ExecNext ==
    \/ ExecStart
    \/ \E t \in ExecTasks : ExecStep(t)
    \/ \E p \in ExecProjects : ExecEdit(p)
    \/ \E e \in execLocal : ExecPrune(e)

(* Every thread of the run goes on: requests have a timeout, commands end,  *)
(* and a notified waiter wakes up.                                          *)
ExecFairness == \A t \in ExecTasks : WF_execVars(ExecStep(t))
ExecSpec == ExecInit /\ [][ExecNext]_execVars /\ ExecFairness

--------------------------------------------------------------------------------
ExecTypeOK ==
    /\ execOptions \in ExecOptions \cup {ExecNotStarted}
    /\ execAt \in [ExecTasks -> {"ready", "store", "export", "waitPut", "put"}
                                  \cup ExecBusy \cup ExecEnded]
    /\ execSources \in [ExecProjects -> ExecContents]
    /\ execKey \in [ExecTasks -> ExecContents \cup {ExecNone}]
    /\ execMade \in [ExecTasks -> ExecContents \cup {ExecNone}]
    /\ execLocal \subseteq ExecEntries
    /\ execRemote \subseteq [scope : {"run:id", "run:oidc", "shared"}, damaged : BOOLEAN,
                             entry : ExecEntries]
    /\ execTransfers \in Nat
    /\ execClient \in {"none", "built"}
    /\ execRaced \subseteq ExecProjects /\ execLost \subseteq ExecTasks

(* An entry was made from the sources its key was computed from, in both    *)
(* caches, unless the project was changed while the task was under way, by    *)
(* the user or by a format that another step runs beside it:                *)
(* the key is computed before the command runs, and format, which rewrites  *)
(* its own inputs, computes it once more afterwards.                        *)
ExecEntriesMatchTheirKeys ==
    \A e \in execLocal \cup {r.entry : r \in execRemote} :
      e.made # e.key => ExecProject[e.task] \in execRaced

(* The limiter counts exactly the transfers under way, never more than      *)
(* max_concurrent_transfers: each way out of restore_entry and store_bundle *)
(* gives the permit back once.                                              *)
ExecPermitsAreExact ==
    /\ execTransfers = Cardinality({t \in ExecTasks : execAt[t] \in ExecTransferring})
    /\ execTransfers <= IF ExecMaxTransfers = 0 THEN 1 ELSE ExecMaxTransfers

(* The remote cache decides over a task's result only when the user asked   *)
(* for it: otherwise a task whose command succeeded is not an error, and    *)
(* one that ended early failed for a reason of its own machine.             *)
ExecRemoteFailuresWarn ==
    \A t \in ExecTasks : execAt[t] = "error" =>
      \/ execOptions.require_remote_cache \/ execOptions.failure = "error"
      \/ execMade[t] = ExecNone /\ t \in execLost

(* What this process uploads is where its own restores look.                *)
ExecUploadsCanBeFound ==
    execOptions # ExecNotStarted => ExecWriteScope \in ExecLookupScopes

(* What a task leaves behind can be used, its permit comes back, and the    *)
(* remote cache decides nothing it should not (execute_single_task and the  *)
(* remote client).                                                          *)
ExecSafety ==
    /\ ExecEntriesMatchTheirKeys
    /\ ExecPermitsAreExact
    /\ ExecRemoteFailuresWarn
    /\ ExecUploadsCanBeFound

(* Every task of the run comes to an end: retries are limited and a permit  *)
(* that is given back lets a waiting transfer go on.                        *)
ExecTasksEnd == (execOptions # ExecNotStarted) ~> \A t \in ExecTasks : execAt[t] \in ExecEnded
================================================================================

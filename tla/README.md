# A TLA+ model of gomo

gomo builds, tests and serves workspaces of Gleam projects. It runs tasks of many
projects in parallel, caches their results in a directory that several gomo
processes share, and exchanges them with other machines through a cache server that
keeps its rows in SQLite and its bundles in a bucket. This directory models the parts
of it that act concurrently, fail half-way or must be undone, checks them with TLC on
small instances, and proves the most important results with TLAPS for all instances.

`PROJECT.json` relates every definition to the lines it was translated from, every run
to its properties, and every hazard of the code to the properties that cover it.

## 1. The system

| component | state it keeps | operations | what makes it hard |
|---|---|---|---|
| task scheduler (`commands/run.rs`) | dependency counts, ready list, running count, outcomes, first error | spawn, receive a completion, stop, finish | worker threads report in any order; failures, panics and terminal errors in the middle |
| single task execution (`commands/run.rs`, `remote_cache.rs`) | one task's key, command and result; transfer permits, one cached client | look up, fetch, run, store, upload, retry, report corruption | inputs change while the command runs; lost answers; permits held through retries |
| project graph (`graph.rs`) | dependency lists, two topological orders | build, detect a cycle, order | selection and dev dependencies change what is upstream |
| local cache (`cache.rs`) | a folder per entry, `.tmp-` folders, `.lock-` folders | store, import, restore, prune | several processes, killed at any time, over a file system without transactions |
| local build outputs (`cache.rs`) | a project's output folders and their backups | replace, roll back | one folder of several fails; a crash between two renames |
| result bundles (`cache.rs`, the server's `main.rs`) | a tar of an entry's files with their digests | export, validate, import | the entry is replaced while it is packed |
| keys and affected selection (`cache.rs`, `affected.rs`, `vcs.rs`) | none | hash what a task reads; select what changes touch | two walks in opposite directions that must agree |
| prune (`cache.rs`) | the folders of the cache with their ages and sizes | sweep, walk, expire, evict | no lock: others store and remove meanwhile |
| cache server (`crates/gomo-cache-server`) | workspaces, scopes, sessions, blobs, entries; objects in a bucket | PUT, GET, reserve, publish, abandon, collect garbage | rows and objects cannot change together; handlers are dropped at any await |
| server access (`main.rs`, migrations) | tokens, capabilities, trust rules, scopes | start, authorize, exchange a token, expire scopes | a start cut short; deletions that cascade; rows that do not |
| persistent task session (`commands/task.rs`) | steps, a result channel, a countdown, a cancellation token | start, report, quit, return | cancellations arrive together with failures |
| named tasks (`commands/task.rs`) | completed tasks, a lock per task, a stack of targets, entries | run dependencies, steps; store, restore | locks held while others are taken; nothing locks two processes |
| watch, dev (`commands/watch.rs`, `commands/dev.rs`) | the loaded workspace, the running child | batch, refresh, cycle, restart | changes during a cycle; half-saved manifests; quitting in between |
| child processes (`runner.rs`, `cancellation.rs`, `ui/surface.rs`) | a process group, its pipes | run, terminate, kill | signals race with exits; pipes outlive processes |
| run display (`ui/run.rs`) | rows, counters, a log window, keys | start, output, finish, scroll, quit | keys refer to an older screen; cycles share a terminal |
| vendored dependencies (`dependency_vendor.rs`) | archives, an inventory, a project's package folders and their record | vendor, check, prepare | relocks, damage, a kill between the copies and the record |
| dependency versions (`dependency_versions.rs`) | none | compare all lock manifests | groups of several projects |
| workspace discovery (`workspace.rs`, `gleam_toml.rs`) | the workspace's layout | follow members and path dependencies | any order of directories; cycles through dev dependencies |
| version control, command line, drawing | texts | parse, report | sequential |

**How they meet.** A command discovers the workspace, builds its graph, prunes the
cache, and checks and prepares vendored packages. The scheduler spawns workers that
run `execute_single_task`; that looks for an entry in the local cache, then asks the
remote client, then runs the command as a child process, stores the result and uploads
it. The remote client talks HTTP to the server and imports what it downloads into the
local cache, under the same locks as a store. Named tasks, watch and dev call the
scheduler; a persistent session runs any of them as its steps. One cancellation token
is shared by a session, its terminal and the children it started. Separate gomo
processes meet only in the file system and in the server.

**What makes each part correct.** A task starts only after its dependencies; a run
skips exactly what a failure put out of reach and returns only a verdict it can
support. A hit gives back all of one stored run, made from what its key says. A lookup
on the server finds only what can be read, the first publication of a key stands, and
no quota, row or object is lost for good. A session loses no edit it was told of,
reports every failure and ends when it is cancelled. A build sees the packages its
lock file names. A prune leaves the cache within its limits and takes no more than it
must.

## 2. The modules

| module | models | uses |
|---|---|---|
| `ProjectGraph` | the dependency operators of `graph.rs` and the selection | |
| `DependencyOrderedRun` | what a run promises: the abstract specification | |
| `TaskScheduler` | `execute_tasks_with_hasher_and_control` | extends `ProjectGraph`, implements `DependencyOrderedRun` |
| `TaskSchedulerProofs` | theorems about it | |
| `PublicationStore` | a first-writer-wins store: the abstract specification | |
| `CacheServer` | `put_cache`, `get_cache`, sessions, quota, the garbage collector, the bucket | implements `PublicationStore` |
| `CacheServerProofs` | theorems about it and `ServerAccess` | |
| `LocalCache` | one entry of the local cache under its lock | |
| `LocalCacheProofs` | theorems about it and `CacheEntries` | |
| `PersistentTask` | `execute_persistent_steps` | |
| `TaskExecution` | `execute_single_task` and the remote client | |
| `TaskExecutionProofs` | theorems about it | |
| `OutputRestore` | `restore_build_outputs` | |
| `ResultBundle` | `export_entry_bundle`, `validate_bundle`, the imports | |
| `TaskResults` | what both promise | extends them |
| `TaskResultProofs` | theorems about it | |
| `InputKeys` | `compute_task_hash`, `select_affected_projects` | |
| `WorkspaceGraph` | discovery, manifests, `ProjectGraph::build` | |
| `Planning` | what both promise | extends them |
| `WorkspaceProofs` | theorems about it and `Dependencies` | |
| `NamedTasks` | `execute_task`: calls, locks, steps | |
| `TaskCommandProofs` | theorems about `PersistentTask` and `NamedTasks` | |
| `NamedEntries` | the entry of a named task between processes | |
| `CachePrune` | `prepare_cache`, `prune_cache`, `reset_cache` | |
| `CacheEntries` | what both promise | extends them |
| `WatchSession` | `gomo watch` | |
| `DevSession` | `gomo dev` | |
| `Sessions` | what both promise | extends them |
| `SessionProofs` | theorems about it and `Processes` | |
| `ChildProcess` | a command's process group and pipes | |
| `RunTerminal` | the full-screen display of runs | |
| `Processes` | what both promise | extends them |
| `VendorStore` | `deps vendor`, `deps check`, `prepare_projects` | |
| `DependencyVersions` | `gomo deps` | |
| `Dependencies` | what both promise | extends them |
| `ServerAccess` | starts, tokens, `authorize`, scopes and their expiry | |
| `MCTasks` | instances of `TaskExecution`, `TaskResults`, `Planning` and `NamedTasks`, one machine at a time | extends them |
| `MCSurroundings` | instances of `CacheEntries`, `Dependencies`, `Sessions`, `Processes` and `ServerAccess`, one machine at a time | extends them |
| other `MC...` | instances for TLC: the example workspace, symmetry sets | |

Each module gives its definitions a prefix (`Exec`, `Rest`, `Bun`, `Key`, `Ws`, `Nm`,
`Ne`, `Pr`, `Wt`, `Dv`, `Cp`, `Rt`, `Vn`, `Dp`, `Ac`) so that several can be extended
together.

Operators that end in a name after an underscore (`CanSpawn_OffByOne`) are variants of
the operator they stand before, with a plausible mistake in it. `PROJECT.json` lists
for each property one that breaks it; no specification uses them.

### Scheduler

One action per decision of the main thread's loop: `SpawnTask` (577-650),
`LeaveSpawning` (when nothing can be spawned, receive or finish), `Receive...` for the
three kinds of message, `Finish...` and `SummaryFails` for the ways to return. `Worker` is the
thread's single report; the channel is the set of workers that have reported, any of
which may be received next. The ready list is a set taken by topological position.
What a task does is a nondeterministic result. `Cancel` sets the token at any moment,
and the loop does not read it, as in the code: only the workers do. A terminal that
fails to draw is a step at every place where the code draws.

The selection is made in `Init` over every non-empty set of requested projects, with
and without their dependencies, and every target. `target_upstream_projects` is
modelled with its exception for custom builds, which see dev dependencies too. That
the graph has no cycle is an assumption here: `ProjectGraph::build` refuses one.

### Cache server

An upload is one PUT with the session row, blob row and object its fresh UUIDs name.
Each SQL statement or transaction is one atomic step; each call to the bucket is a
step that may succeed, fail, or take effect and be reported as failed. `Disconnect`
drops a handler at any await, `Crash` drops all of them together with the collector's
progress, and rows and objects stay. The collector's phases follow
`garbage_collect`: expire sessions, delete their objects, evict entries, collect
unreferenced rows, then for each re-check, mark, erase, forget. Time is a choice: an
hour or a retention period may pass between any two steps, so any set of sessions,
entries or rows may be overdue. What is refused for its headers, token or bytes is
one nondeterministic `Refuse`.

The mapping to `PublicationStore` shows a key's result while its blob is available,
and an answer as soon as the handler decides it. It says that the first publication
of a key is the one it shows, that later ones are answered by comparison with it, and
that whatever is shown can be read.

### Local cache

A directory is named by the process that made it, and `at` is the one at the entry's
path, so that a reader which opens path after path may meet different directories.
Creating and renaming a directory are atomic, removing one is not: `RemoveFile` takes
one file at a time, and a file may be found missing because another process removed
it. Stores create, write and rename under the lock (`store_successful_build`);
imports write before they take it (`import_task_bundle`); a lock found stale is
removed in a step of its own, so that two waiters may both do so. `Kill` ends a
process at any step. The initial states include an entry that an earlier process left
whole, or half removed.

### Persistent task session

Workers and main thread of `execute_persistent_steps` in both modes, chosen in `Init`.
`sent` is the channel, `Drain` the receipt of one result, `Quit` the user's, `Verdict`
the decision at the end. An error that says only that the step was cancelled is told
apart from others, since the code does so by its text.

### A task and its result

`TaskExecution` has one action per call of `execute_single_task` and `RemoteClient`:
begin (the key is computed), restore, connect, acquire a permit, GET, import, verify,
run, store, export, PUT. Tasks share sources, both caches and the permits. An entry
records what it was *made* from beside the key it is stored under, which no code can
read: the property compares the two. `format` rewrites its own inputs and computes
the key once more. A request may be answered, lost, or answered after it took effect.

`OutputRestore` has one action per system call of `restore_build_outputs`, each of
which may fail, and a process may be killed between any two. `ResultBundle` reads each
file of an entry twice, to hash it and to pack it, while imports replace the entry.
`InputKeys` computes keys forward and the selection backward from the same file
changes; a key is the record of what was hashed. `WorkspaceGraph` follows directories
in any order, detects cycles depth first and sorts by counting.

### Named tasks

`NamedTasks` keeps the tree of calls of `execute_task`, each named by its path. Locks,
completed tasks and the stack of targets are shared or copied as in the code: a step
that runs a bound target starts a new execution state of its own, a parallel step's
thread inherits the stack. `NamedEntries` is one task's entry between processes, which
nothing locks: unpack, rename, validate, restore and store interleave, files are
damaged at rest, and processes die.

### Sessions

`WatchSession` and `DevSession` interleave the user's edits with what the watcher has
gathered, what it has sent, and the cycle or build that runs. A layout is what the
manifests say: valid or broken, with their projects and commands. `wtStale` and
`dvVersion` are what a user would compare with. Quitting comes by key, by signal or
from a surface, at any step.

`ChildProcess` has the processes of one group, which write, start others, end, ignore
SIGTERM or hold a pipe as they like; and the three ways the code waits for them.
`RunTerminal` keeps the window of a log as numbers: its end, what was drawn, and what
the user asked for; keys wait in a queue until an operation of the run handles them.

### Prune, vendored packages, server access

`CachePrune` removes by age and size while others store and remove; a directory is
known by the copy that is in it, and the walk and the removal may meet another copy.
`VendorStore` follows packages from lock file to archive, cache, folder and record,
with relocks, damage and kills between any two steps. `DependencyVersions` folds over
the manifests as the code does and compares with a definition over pairs.
`ServerAccess` has a start's statements one by one, tokens and their expiry, the
requests that create scopes, and the collector's statements about tokens, sessions,
entries and scopes with the foreign keys of the tables.

## 3. The runs

| run | question | states |
|---|---|---|
| `scheduler` | order, parallel limit, exact skips, earned verdicts, an end to cancelled runs, refinement | 57,922 |
| `scheduler_transitive_order` | is a chain ordered whose middle was not selected? **no** | |
| `server_safety` | what is visible can be read, quota and reservations balance, rows outlive objects, refinement | 1,135,041 |
| `server_liveness` | reservations, unreferenced rows and failed keys come to an end | 17,942 |
| `server_leak` | is every unreferenced object deleted? **no** | |
| `local_cache` | the lock excludes, an entry is installed whole and stays, a hit is one run, operations end | 104,836 |
| `local_cache_shared` | with imports, prunes and stale locks: locks are released | 2,667,124 |
| `local_cache_import` | is a hit one run although others import? **no** | |
| `session` | counting, verdict, and the end of cancelled parallel sessions | 1,689 |
| `session_sequential_quit` | does every cancelled session end? **no** | |
| `tasks` | entries made from what their keys say, exact permits, restores that roll back, bundles others can install, keys and selection that agree, named tasks that run once, are never stuck and restore what they would make; tasks end | 971,377 |
| `surroundings` | entries and prunes between processes, edits not lost by sessions, output and processes of a command, the screen, locked packages, versions, tokens and reservations | 2,971,140 |

`CHECK_DEADLOCK FALSE` is in each configuration because each of these systems may
stop: runs, sessions and operations end, and uploads are finite in number.

`tasks` and `surroundings` check several machines that share no state. Their first
step sets `part`, which chooses one; the others stay as they begin, so that the number
of states is the sum of theirs. The properties of two machines are then one
definition, in the module that extends both: `PlanningSafety` is `WsSafety` and `KeySafety`,
and `ResultsSafety`, `EntriesSafety`, `DependenciesSafety`, `SessionsSafety` and
`ProcessSafety` are made in the same way. While one machine runs the other's half is true
of its initial state and adds nothing. The theorems are about the halves first.

**Bounds.** *Scheduler*: five projects with a diamond, a chain, a project with a
custom build and a dev dependency that reverses two of them in the second order, two
workers: a limit that binds, a failure with dependents and without, and a selection
with a gap all occur. *Server*: three uploads for one key with two results and a quota
of two, so that two equal and one different result compete, the quota is hit, and a
loser may look up an entry that has gone; one reader; every bundle takes one unit. Keys
do not interact but through the quota, which one key exhausts as well as two. The
liveness run has two uploads, which is what it takes for an orphan to arise from a
lost race. *Local cache*: `Attempts` is one, so that a waiter waits once, and gives up
the next time; three stores allow a holder, a waiter and one that finds the
entry; the shared run has one of each operation. Both use the larger entry, that of a
build; the run with imports uses that of a test. *Session*: three steps are the fewest with
one before and one after the step that fails. *Task*: two tasks of one project, a
format and a build, with one permit and two attempts: they race for the permit, for
the sources and, by edits, for the meaning of a key; six configurations of options. *Output
folders*: two folders, the fewest where one fails after another was replaced; one fault,
as many as the property allows, which may be a kill or a step of the rollback that
another process has caused; three restores, the fewest where one moves away what another
has installed while the third puts back what was there before. *Bundle*: two runs and two
replacements, the fewest that bring the first back. *Keys*: four projects with a nested
one and a dev dependency, one file changed: several changes select and hash what each
does. *Graph*: three projects with every
combination of dependencies. *Named tasks*: a diamond under parallel steps, a target
bound to a task that another thread holds, as a dependency and with a cache of its own,
two invocations, one edit. *Entries*: three
processes, two outputs. *Prune*: two entries of sizes 1 and 2, both with their
temporary directory, two copies. *Watch, dev*: two edits, so that one may fall into
what the other caused. *Child*: a command and one child, two chunks. *Display*: two
projects, three lines, two keys, two cycles. *Vendored packages*: three lock files, where
a name keeps its version or its origin, and three changes. *Access*: three tokens, two
starts, two uploads, three ticks: a scope expires while a session is in it.

**Fairness.** *Scheduler*: the main thread runs, and a cancelled worker reports, since
every runner kills its child then; a command nobody cancels may run for ever.
*Server*: the collector is started every hour and goes on; crashes and failed
statements stop some day (`<>[]`), and each deletion is strongly fair, as the bucket
does not refuse the same one for ever and everything is overdue in some round. No
fairness is assumed of handlers: they may vanish. *Local cache*: a process not killed
goes on, each attempt at the lock included. *Session*: threads run, and a cancelled
step ends. Steps that run another task's process to its end (`task.rs:1337`) do not
look at the token; they are taken to be commands that end. *Task* (`ExecFairness`):
each task's thread goes on, as requests have a timeout, retries are counted, commands
end and a notified waiter wakes up; nothing is assumed of edits or prunes.

## 4. What the violations show

* `scheduler_transitive_order`: `build_task_graph` waits only for direct dependencies
  that are selected. With `a <- b <- c` and only `a` and `c` requested, `c` may start
  before `a`, against the README's "runs tasks in dependency order".
* `server_leak`: the object of a session that expired, was abandoned or whose upload
  failed is deleted once, outside any transaction, and a failure is only logged. No
  row names it afterwards, against the command's "Evict expired entries and
  unreferenced objects".
* `local_cache_import`: `import_task_bundle` removes the entry at its path without
  asking whether it has become complete since the import's miss. A restore in a third
  process that passed its check reads an output that is no longer there as an empty
  text.
* `session_sequential_quit`: the sequential worker leaves its loop at a cancellation
  without results for the steps it has not run, and the main thread waits for them
  for ever.

## 5. The proofs

All theorems are for every value of the constants that meets the named assumptions.

*Scheduler* (from `ProjectsAssumption`, `AcyclicAssumption`, `SchedulerAssumption`).
The code keeps numbers in place of sets; the invariant `IInv` says which: the count of
a project is the size of `Unmet`, the ready list is exactly the idle projects with
nothing unmet while there is no error, and the running count is that of the workers in
flight. With it order, limit and verdict are preserved step by step, and `NeverStalls`
follows from the acyclic graph: an unstarted project of a quiet run without failures
would have an unstarted dependency, and a least one has none. The refinement maps each
step to one of `DependencyOrderedRun` or a stutter.

*Server* (from `ServerAssumption`). The invariant says who may still touch an object:
an entry names the upload that published it, whose session is complete, and the
collector holds only what nothing refers to and nothing will. Without it a late
deletion could concern a visible blob. Quota needs only that a session ends once. The
refinement follows from the first half.

*Local cache* (from `LocalCacheAssumption` and `StoresOnly`: no imports, no prunes, no
lock that ages). The invariant says that whoever is past the lock created it, and what
it found out about the entry's path stays true; then a complete entry never changes
and a reader sees one directory. The assumption cannot be dropped: the run
`local_cache_import` is the counterexample, and a lock that ages can have two holders.

The types, and that a process which has ended on its own holds no lock, need none of
that: they are proved with imports, prunes and locks that age. That only whole
directories take the entry's place is proved without prunes, which may take a file from
a directory that is being written.

*Session* (from `PersistentTaskAssumption`). The invariant says that `remaining` is the
number of results not counted yet, that a counted error is remembered, and that a
cancellation is the first error only if the user asked for it. At zero every result
has been counted, so that the verdict is about all of them.

*A task* (from `ExecAssumption`: the tasks of a run are finite in number, and options
are not the mark for "not started"). `ExecShape` says for each step of
`execute_single_task` what it has: a request when it is in a transfer, a key when it
looks or uploads, something made when it is past its command. `ExecKeyIsCurrent` is what
makes entries match their keys: before the command the key is that of the sources as
they are, after it what was made is what the entry's key stands for, or the project has
been changed meanwhile. The permits are a cardinality that each step changes by
one or not at all.

*Bundles* (from `BunAssumption`). The hard part is that each file is read twice and
`meta.json` in between. `BunReadings` says what the readings can differ by: nothing
without a replacement; with one, the files hashed are of the first or the second
result; and if `meta.json` is still the first one when it is packed, everything was hashed
before. A bundle that passes the server is then one run's. What a client
installs is one run's for any number of replacements, since it compares every file with
the metadata.

*Output folders* (from `RestAssumption`). Two invariants, for the two claims. `RestLone`
is about a restore that has the project to itself: it names what every folder and its
backup hold at each step, as a function of the index of the loop, and on the way back
as one of two numbers, of folders installed and moved away. `RestShared` is about any
number of restores of one folder: whoever has outputs in the project, or in the work
directory of another, has installed them and is past that; the old outputs are in one
place; when the folder is missing somebody is on the way to put something there. For two
processes it adds that the one with the old outputs goes back only when the other has
installed its own. That this is false of three was found in this proof, and TLC gave the
run (section 6).

*Named tasks* (from `NmAssumption`: what `reject_task_cycles` and the loading of tasks
ensure, of finitely many tasks). The invariant follows the calls by their paths: whoever called a call works in
the same state on a task that refers to the called one, or the call is the first of a
state of its own; the call of a dependency ends well only if the dependency has completed;
a task that is worked on has not completed. Every step of a call is a change of phase or
a new call, so the proof has those two cases. That the calls never all wait is proved of
any number of threads and nested states: take the states with the longest paths; among the
tasks worked on in one of them, one refers to no other, since references have no cycle; its
call, or the holder of its lock, waits for nobody.

That hits are fresh (`HitsAreFresh`) rests on a relation from keys to what they stand for
(`NmPairsAreRight`): it pairs what a key takes from another key with what the commands made
of that task's output. The invariant says that there is such a relation, and that it holds
every entry of the cache, of whatever invocation, and the key and the output of each task
completed in the running one. A key stands for one thing (`KeysStandForOne`), and the key
of a task whose dependencies have completed stands for what its commands would make
(`KeyStandsForMade`); both are shown by a task that refers to no other for which it fails,
as are the keys themselves, which are a recursive function over a graph without cycles
(`NamedKeysExist`). To stay, the relation needs the rest of `NmHitsIInv`: a call at its
steps holds the key its task still has, and once one of its commands has ended and none has
failed, its task's output is what the task makes now; for this a command runs only while
its caller is at its steps (`NmCommandsRun`). The history `nmRaced` is used in two places: an edit
under an invocation, and a command whose task another state works on or has completed.

*Watch* (from `WtAssumption`: layouts and command lines are as the parser leaves them).
`WtStaleIsToRun` accounts for each project that is stale: the cycle has still to run it, or
an event that will make a cycle run it is gathered or in the channel, unless a change of
the manifests is, which makes everything run. It needs `WtLayoutIsHeld`, as the worker
computes what a batch affects from the layout it holds, and that what two batches affect
is what each does (`BothAreAffected`). The exception is a stopped session that has
dropped its cycle: it ends before it waits again. *Dev* (from `DvAssumption`): the same
of one build instead of a cycle (`DvSourceIsKnown`, `DvLayoutIsKnown`).

*Server access* (from `AcAssumption`: a configuration's two tokens differ, an exchanged
token is drawn at random, a pass of the collector can expire all the sessions there are).
`AcRowsAreOwned` says whose each token is: the reader and the writer have one each from the
statement of the start on that puts it in place, and the legacy token is revoked before
both. For the reservations, `AcScopesOutlive` says that an active session is over before
its scope is, and `AcPassIsOrdered` that the collector has expired the overdue sessions
before it looks at the scopes, so that no scope it deletes holds one.

*Workspace graph* (from `WsAssumption`: the layouts are what manifests can say, and names have
an order). `WsIInv` follows the phases of the code. Discovery: what was found is in every set
that contains the members and is closed under path dependencies, and what has been followed
is not to be followed again. Edges: they are the path dependencies, all resolved. Cycle search:
the stack is a path of projects, and what has been visited is closed under dependencies and
every part of it has a member without dependencies in that part; so a search that ends has
refuted every cycle, and one that stops has one on its stack. Sort: whatever is placed comes
after its dependencies, and while something is left, something of it can be placed.

*Keys and affected selection* (from `KeyAssumption`: dependencies have no cycle, which the
graph's search has checked). The code computes keys from those of dependencies and the selection
from those who depend. Keys, the order and the selection are recursive functions, so
the proof first shows that they have the values that their definitions say: for every number
there is a part of the function up to it, as a least number without one cannot be, and a
project's key is computed before those of its dependents (`KeyNamesItsProject` to
`KeyEqualReadsTheSame` then read a key back). Equal keys have read equal files; what was not
selected has, by the least counterexample, the key it had.

*Vendored packages* (from `VnAssumption`). `VnRecordHolds` says that what the record in a
project names is what is laid out, but for the packages a preparation has been through since,
and `VnFindsGood` what a preparation has found so far; both are of a preparation that nothing
raced (`vnRaced`) and of folders that no kill left torn (`vnTorn`). *Versions* (from `DpAssumption`): the
groups and issues that `gomo deps` has gathered are those of the projects it has read, and the
verdict is about all of them.

*Named entries* (from `NeAssumption`). Any number of processes, outputs and damages: an entry
that validates is one that a store has renamed into place whole, and what a process holds to
install or to store is never a damaged file. When no two processes were at work at a time
`NeRestoreIsOfTheEntry` says how far the loop of a restore has come, output by output.
*Prune* (from `PrAssumption`). `PrTotalIsOfKept` says that the code's running total is the sum of
the sizes of what is kept, a fold that the proof counts as a set of bytes; `PrEvictionsAreDue` that
what was removed for its size was the oldest, while what was no older was too much.

*Child processes* (from `CpAssumption`). `CpReadersAreLast` is the point: the readers are done
only when nobody holds a pipe, and only a process that holds one can write, or pass it on
when it starts another; so the output that is returned stays complete. After a cancelled wait,
a kill that was sent to the group has reached whoever is in it, since nobody starts another
process when dead or killed. *Display* (from `RtAssumption`). The keys that wait are handled
by a fold, which is shown to lead from a view to a view for any number of them. A window stays
where the user wanted it because lines only grow while it is drawn; the counters are the
sizes of sets of rows, and each completion moves one row.

Only model-checked: of `tasks` and `surroundings` the two type invariants as wholes; each
part of them is proved for its own module. Every other safety property of a passing run
has a theorem.

Left to TLC: liveness under fairness, and what depends on `ENABLED`. The library's induction
theorems take an operator as a parameter, which the provers cannot instantiate; what is proved
of all numbers, and of recursive functions over them, is by a least counterexample
(`AllNumbers`). There is no `RECURSIVE` operator in the modules with theorems.

## 6. What the models say about the limits of the code

Each of these is a precondition of a property, or a history variable in one, because
the property does not hold without it. They are facts about the code as it is written.

*Restores*: nothing locks a project's outputs; two processes that restore two or more
folders at once can leave a mixture without any fault. Of three that restore one
folder, one may report success and yet leave the old outputs in the project: a second
moves away what the first has installed, and the third, which has moved the old ones away
and found the place taken, puts them back.
*Bundles*: an entry that is replaced and replaced back by its first contents while it is
exported is published as if nothing had happened.
*Keys*: `gleam.toml` is hashed whatever the declared inputs, although
the project's `README.md:204` says they override what is used; a dependency is hashed by its
build inputs whatever the target; an outer project's key reads a nested project's
files, which the selection gives to the inner one (`KeyUniform`). A file that version control
ignores is hashed when a pattern of inputs matches it, but is never a change that git reports;
the model takes the ignored files to be those of output folders.
*Tasks*: an input that changes while its task is under way is stored under the earlier
key (`execRaced`). An import that cannot be read back ends the task when the local
cache fails, whatever the remote failure policy.
*Named tasks*: a target bound to a task runs in an execution state of its own, so that the
task may run twice at a time within one command, on the same outputs; when the one fails,
the other may store what it left (`nmRaced`). The second of two processes to rename an entry into place fails, and with it
a task that succeeded; a restore makes the entry's directory again, so that another's
rename fails; a hit may print another run's text than that of the outputs it restored
(`neOverlap`).
*Prune*: an entry that is renamed during the walk may be counted twice, or be missed; a
directory that vanishes under the walk ends the run; what is left of a removal that
was killed after `meta.json` had gone is never counted nor pruned again.
*Watch*: a manifest that changes between discovery and the start of the watcher is not
seen until the next one (`wtUnseen`); an error of `run_cycle` ends the session,
although `README.md:96` has it waiting after a failed task or callback.
*Dev*: the same for edits before the watcher starts (`dvUnseen`); after a failed build of a
changed layout, a later change of sources only is built with the old layout
(`dvMissed`); on a surface, a broken manifest leaves the process to the session's owner.
*Children*: a persistent step does not kill the rest of its group by force; a captured
command waits for whoever holds its pipes, cancelled or not.
*Display*: a key typed after a run's last draw waits for the next cycle; failed rows of
a watch cycle are replaced at once by the waiting ones; that a handled key was `q` is
not looked at, so a one-shot run cannot be cancelled from the terminal.
*Vendored packages*: a preparation that stops between a package and its record leaves what a
later return to the old lock file takes for fresh (`vnTorn`); a Hex package in place of
a Git one of the same version counts as fresh.
*Access*: a corruption event on a run's scope makes the statement that deletes expired
scopes fail from then on. Sessions are gone before their scope only because a pass can
expire all of them (`AcAssumption`: `AcBatch`) and a request takes less than a tick of
the clock (`AcTick` waits for a pass, and for an upload whose scope has just been made).

## 7. Not modelled

*External*: the custom commands, gleam, the package manager, git and jj, Watchexec's gathering
of events, the bucket, and the file system but for the atomicity of its calls.

*Data*: what parsers of manifests, lock files, tokens and archives accept; hash functions
(a digest identifies its contents); compression, sizes of archives and of requests; the
signature of an identity token, which is an input.

*Input and output without state of their own*: argument parsing, completion, `init`,
`doctor`, `explain` and other one-shot reports, the interactive views of graphs and
projects, drawing; health, metrics, migrations and the graceful shutdown of the server.

*Simplified*: the server's commits succeed or have no effect. Two pipes of a child are
one; ids of processes are not reused. Other prunes, `clean` and `reset` are single
actions of `CachePrune`; `cache_entry_created_at` always finds a time in `meta.json`. Two
`deps vendor` at a time, which nothing prevents, are left out, and one project is
prepared. Damage to a named entry happens while no one reads it. `LocalCache` is one
key; `OutputRestore` is one project.

## 8. The plan

All components that keep state have a module, and all their safety properties have a
theorem. What is left:

1. `LocalCache` without imports implements the local half of `TaskExecution`: there an entry
   is stored and read in one step each.
2. The liveness properties for all instances, which is out of the provers' reach.

----------------------------- MODULE WorkspaceGraph -----------------------------
(***************************************************************************)
(* How every command starts: it reads gomo.toml, discovers the projects    *)
(* (src/workspace.rs), reads their manifests (src/gleam_toml.rs) and       *)
(* builds the project graph (src/graph.rs), or stops with an error.        *)
(*                                                                         *)
(* Discovery follows path dependencies in whatever order the directories   *)
(* come; the graph is searched for cycles depth first and then sorted by   *)
(* counting, each project as soon as its dependencies are placed.          *)
(*                                                                         *)
(* A directory is a model value.  It is a "member" when a project root     *)
(* glob names it, "inside" when it is elsewhere in the workspace, and      *)
(* "outside" otherwise.                                                    *)
(***************************************************************************)
EXTENDS Naturals, FiniteSets, Sequences

CONSTANTS
    WsDirs,         \* directories
    WsPlace,        \* [WsDirs -> {"member", "inside", "outside"}]
    WsNames,        \* package names
    WsRank,         \* [WsNames -> Nat], their alphabetical order
    WsLayouts,      \* what is in the directories: see WsIsLayout
    WsConfigs       \* what is in gomo.toml and the environment: see WsIsConfig

WsTables == {"dependencies", "dev-dependencies"}

(* A layout: the package name in each directory's manifest ("none" without
   one) and the path dependencies it lists. *)
WsIsLayout(l) ==
    /\ l.name \in [WsDirs -> WsNames \cup {"none"}]
    /\ \A d \in WsDirs : \A dep \in l.dependencies[d] :
         dep.name \in WsNames /\ dep.dir \in WsDirs /\ dep.table \in WsTables

ASSUME WsAssumption ==
    /\ \A l \in WsLayouts : WsIsLayout(l)
    /\ WsRank \in [WsNames -> Nat]
    /\ WsPlace \in [WsDirs -> {"member", "inside", "outside"}]

VARIABLES
    wsAt,       \* the stage: "idle", "config", "discover", "edges", "cycles",
                \* "order", "ready", or an error
    wsConfig,   \* the configuration
    wsRemote,   \* the remote cache it ends up with
    wsLayout,   \* the layout
    wsRoots,    \* the project roots found so far,
    wsPending,  \* and those whose dependencies are still to be followed
    wsUp,       \* [names -> names], the regular dependencies; wsDev the dev ones
    wsDev,
    wsVisited,  \* detect_cycle: the visited projects, and
    wsStack,    \* the ones being visited
    wsOrder     \* topological_order: the projects placed

wsVars == <<wsAt, wsConfig, wsRemote, wsLayout, wsRoots, wsPending, wsUp, wsDev, wsVisited, wsStack, wsOrder>>

WsErrors == {"bad config", "bad remote", "outside", "no manifest", "wrong name",
             "duplicate name", "cycle", "unsorted"}
WsEmpty == [n \in WsNames |-> {}]
WsNoRemote == [url |-> "none", workspace |-> FALSE, mode |-> "auto", transfers |-> 0]

--------------------------------------------------------------------------------
(* gomo.toml.  A configuration: whether its globs are well formed, where the
   vendor directory is, and the remote cache of the file and of the
   environment, where "unset" falls back. *)

(* normalize_vendoring_config: inside the workspace and clear of the cache. *)
WsVendorAccepted(c) == c.vendor \in {"none", "apart"}

(* normalize_remote_cache: the environment replaces the file, value by value. *)
WsOverride(file, environment) == IF environment = "unset" THEN file ELSE environment
WsRemoteOf(c) ==
    IF c.file = WsNoRemote /\ c.envUrl = "unset" /\ c.envWorkspace = "unset"
    THEN WsNoRemote
    ELSE [url |-> WsOverride(c.file.url, c.envUrl),
          workspace |-> c.file.workspace \/ c.envWorkspace = "set",
          mode |-> WsOverride(c.file.mode, c.envMode),
          transfers |-> IF c.file = WsNoRemote THEN 4 ELSE c.file.transfers]

(* and validate_remote_cache_url: plain http for this machine only. *)
WsRemoteAccepted(r) ==
    \/ r = WsNoRemote
    \/ /\ r.url \in {"https", "http loopback"} /\ r.workspace
       /\ r.mode \in {"auto", "read-only", "read-write"} /\ r.transfers > 0

--------------------------------------------------------------------------------
WsHas(l, d) == l.name[d] # "none"
WsInWorkspace(d) == WsPlace[d] # "outside"

(* candidate_project_roots *)
WsCandidates(l) == {d \in WsDirs : WsPlace[d] = "member" /\ WsHas(l, d)}

(* discoverable_path_dependency_root *)
WsFollowed(l, d) ==
    {dep.dir : dep \in {x \in l.dependencies[d] : WsInWorkspace(x.dir) /\ WsHas(l, x.dir)}}

WsProjects == {wsLayout.name[d] : d \in wsRoots}
WsRootOf(n) == CHOOSE d \in wsRoots : wsLayout.name[d] = n
WsEverything == {<<d, dep>> : d \in wsRoots, dep \in UNION {wsLayout.dependencies[d] : d \in wsRoots}}
WsDependencies == {x \in WsEverything : x[2] \in wsLayout.dependencies[x[1]]}

(* resolve_dependency: the error of one dependency, or "managed" or "unmanaged". *)
WsResolve(dep) ==
    CASE ~WsInWorkspace(dep.dir) -> "outside"
      [] WsInWorkspace(dep.dir) /\ ~WsHas(wsLayout, dep.dir) -> "no manifest"
      [] WsInWorkspace(dep.dir) /\ WsHas(wsLayout, dep.dir) /\ dep.dir \notin wsRoots -> "unmanaged"
      [] dep.dir \in wsRoots /\ wsLayout.name[dep.dir] # dep.name -> "wrong name"
      [] OTHER -> "managed"

WsEdges(table) ==
    [n \in WsNames |->
        IF n \notin WsProjects THEN {}
        ELSE {dep.name : dep \in {x \in wsLayout.dependencies[WsRootOf(n)] :
                                    x.table = table /\ WsResolve(x) = "managed"}}]

(* merge_dependency_maps *)
WsMerged(n) == wsUp[n] \cup wsDev[n]

WsFirst(S) == CHOOSE n \in S : \A m \in S : WsRank[n] <= WsRank[m]
WsOnStack == {wsStack[i] : i \in 1..Len(wsStack)}
WsPlaced == {wsOrder[i] : i \in 1..Len(wsOrder)}

--------------------------------------------------------------------------------
WsInit ==
    /\ wsAt = "idle" /\ wsConfig = <<>> /\ wsRemote = WsNoRemote /\ wsLayout = <<>>
    /\ wsRoots = {} /\ wsPending = {} /\ wsUp = WsEmpty /\ wsDev = WsEmpty
    /\ wsVisited = {} /\ wsStack = <<>> /\ wsOrder = <<>>

(* discover_from: the invocation finds a workspace. *)
WsOpen ==
    /\ wsAt = "idle"
    /\ \E c \in WsConfigs, l \in WsLayouts : wsConfig' = c /\ wsLayout' = l
    /\ wsAt' = "config"
    /\ UNCHANGED <<wsRemote, wsRoots, wsPending, wsUp, wsDev, wsVisited, wsStack, wsOrder>>

(* parse_workspace_config *)
WsParse ==
    /\ wsAt = "config"
    /\ wsRemote' = IF WsRemoteAccepted(WsRemoteOf(wsConfig)) THEN WsRemoteOf(wsConfig) ELSE WsNoRemote
    /\ wsAt' = CASE ~WsRemoteAccepted(WsRemoteOf(wsConfig)) -> "bad remote"
                 [] ~wsConfig.globs \/ ~WsVendorAccepted(wsConfig) -> "bad config"
                 [] OTHER -> "discover"
    /\ wsRoots' = IF wsAt' = "discover" THEN WsCandidates(wsLayout) ELSE {}
    /\ wsPending' = wsRoots'
    /\ UNCHANGED <<wsConfig, wsLayout, wsUp, wsDev, wsVisited, wsStack, wsOrder>>

(* discover_project_roots: one pending root. *)
WsFollow(d) ==
    /\ wsAt = "discover" /\ d \in wsPending
    /\ LET found == WsFollowed(wsLayout, d) \ wsRoots
       IN  wsRoots' = wsRoots \cup found /\ wsPending' = (wsPending \ {d}) \cup found
    /\ UNCHANGED <<wsAt, wsConfig, wsRemote, wsLayout, wsUp, wsDev, wsVisited, wsStack, wsOrder>>

(* load_project and reject_duplicate_names *)
WsLoad ==
    /\ wsAt = "discover" /\ wsPending = {}
    /\ wsAt' = IF \E d, e \in wsRoots : d # e /\ wsLayout.name[d] = wsLayout.name[e]
               THEN "duplicate name" ELSE "edges"
    /\ UNCHANGED <<wsConfig, wsRemote, wsLayout, wsRoots, wsPending, wsUp, wsDev, wsVisited, wsStack, wsOrder>>

(* ProjectGraph::build, the edges: the first dependency that does not resolve
   ends it, and which comes first does not matter here. *)
WsConnect ==
    /\ wsAt = "edges"
    /\ LET failures == {WsResolve(x[2]) : x \in WsDependencies} \ {"managed", "unmanaged"}
       IN  IF failures = {}
           THEN wsAt' = "cycles"
                /\ wsUp' = WsEdges("dependencies") /\ wsDev' = WsEdges("dev-dependencies")
           ELSE wsAt' \in failures /\ UNCHANGED <<wsUp, wsDev>>
    /\ UNCHANGED <<wsConfig, wsRemote, wsLayout, wsRoots, wsPending, wsVisited, wsStack, wsOrder>>

(* visit_for_cycle: enter the next project, or the next dependency of the
   project on top that is not visited; a dependency being visited closes a
   cycle; a project without any is left. *)
WsNextToVisit ==
    IF wsStack = <<>> THEN WsProjects \ wsVisited ELSE WsMerged(wsStack[Len(wsStack)]) \ wsVisited

WsVisit ==
    /\ wsAt = "cycles" /\ WsNextToVisit # {}
    /\ LET n == WsFirst(WsNextToVisit)
       IN  IF n \in WsOnStack
           THEN wsAt' = "cycle" /\ UNCHANGED wsStack
           ELSE wsStack' = Append(wsStack, n) /\ UNCHANGED wsAt
    /\ UNCHANGED <<wsConfig, wsRemote, wsLayout, wsRoots, wsPending, wsUp, wsDev, wsVisited, wsOrder>>

WsLeave ==
    /\ wsAt = "cycles" /\ WsNextToVisit = {}
    /\ IF wsStack = <<>>
       THEN wsAt' = "order" /\ UNCHANGED <<wsVisited, wsStack>>
       ELSE /\ wsVisited' = wsVisited \cup {wsStack[Len(wsStack)]}
            /\ wsStack' = SubSeq(wsStack, 1, Len(wsStack) - 1)
            /\ UNCHANGED wsAt
    /\ UNCHANGED <<wsConfig, wsRemote, wsLayout, wsRoots, wsPending, wsUp, wsDev, wsOrder>>

(* topological_order: the alphabetically first ready project is placed. *)
WsReady_AnyDependency ==                    \* mutant: ready at the first decrement
    {n \in WsProjects \ WsPlaced : WsMerged(n) = {} \/ WsMerged(n) \cap WsPlaced # {}}
WsReady == {n \in WsProjects \ WsPlaced : WsMerged(n) \subseteq WsPlaced}

WsPlaceNext ==
    /\ wsAt = "order"
    /\ IF WsReady # {}
       THEN wsOrder' = Append(wsOrder, WsFirst(WsReady)) /\ UNCHANGED wsAt
       ELSE /\ wsAt' = IF WsPlaced = WsProjects THEN "ready" ELSE "unsorted"
            /\ UNCHANGED wsOrder
    /\ UNCHANGED <<wsConfig, wsRemote, wsLayout, wsRoots, wsPending, wsUp, wsDev, wsVisited, wsStack>>

WsNext ==
    \/ WsOpen
    \/ WsParse
    \/ \E d \in WsDirs : WsFollow(d)
    \/ WsLoad
    \/ WsConnect
    \/ WsVisit
    \/ WsLeave
    \/ WsPlaceNext

WsSpec == WsInit /\ [][WsNext]_wsVars

--------------------------------------------------------------------------------
(* Types.                                                                  *)
WsTypeOK ==
    /\ wsAt \in {"idle", "config", "discover", "edges", "cycles", "order", "ready"} \cup WsErrors
    /\ wsRoots \subseteq WsDirs /\ wsPending \subseteq wsRoots
    /\ wsUp \in [WsNames -> SUBSET WsNames] /\ wsDev \in [WsNames -> SUBSET WsNames]
    /\ wsVisited \subseteq WsNames /\ wsStack \in Seq(WsNames) /\ wsOrder \in Seq(WsNames)

(* The directories discovery must find: the least set with the members that
   is closed under path dependencies on packages of the workspace. *)
WsReachable ==
    {d \in WsDirs : \A S \in SUBSET WsDirs :
        (WsCandidates(wsLayout) \subseteq S /\ \A e \in S : WsFollowed(wsLayout, e) \subseteq S) => d \in S}

(* Whatever order the roots are followed in, discovery finds the same
   projects, and no dependency of a project is left unmanaged: what
   resolve_dependency returns for one never happens after discover. *)
WsDiscoveryIsComplete ==
    wsAt \in {"edges", "cycles", "order", "ready", "cycle"} =>
        wsRoots = WsReachable /\ \A x \in WsDependencies : WsResolve(x[2]) # "unmanaged"

WsHasCycle ==
    \E S \in SUBSET WsProjects : S # {} /\ \A n \in S : WsMerged(n) \cap S # {}

(* A graph is refused exactly when it has a cycle, through dev dependencies
   or not; the sort that follows never fails on what the search let pass. *)
WsCyclesAreFound ==
    /\ wsAt = "cycle" => WsHasCycle
    /\ wsAt \in {"order", "ready"} => ~WsHasCycle
    /\ wsAt # "unsorted"

(* A workspace that loads has every project once in the order, after all its
   dependencies, and an edge for each path dependency of each manifest. *)
WsOrderIsTopological ==
    /\ \A i, j \in 1..Len(wsOrder) :
         /\ wsOrder[i] \in WsMerged(wsOrder[j]) => i < j
         /\ wsOrder[i] = wsOrder[j] => i = j
    /\ wsAt = "ready" =>
         /\ WsPlaced = WsProjects
         /\ \A x \in WsDependencies : x[2].name \in WsMerged(wsLayout.name[x[1]]) \cap WsPlaced

(* A remote cache that is configured can be used: with no permits at all a
   task would wait for one for ever. *)
WsRemoteIsUsable ==
    wsRemote # WsNoRemote => wsRemote.transfers > 0 /\ wsRemote.workspace /\ wsRemote.url # "none"

WsSafety == WsDiscoveryIsComplete /\ WsCyclesAreFound /\ WsOrderIsTopological /\ WsRemoteIsUsable
================================================================================

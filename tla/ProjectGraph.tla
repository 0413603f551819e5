------------------------------ MODULE ProjectGraph ------------------------------
(***************************************************************************)
(* The project dependency graph as the task runner sees it (src/graph.rs   *)
(* and the selection half of src/commands/run.rs).                         *)
(*                                                                         *)
(* Upstream[p] are the workspace projects p lists under [dependencies],    *)
(* DevUpstream[p] those under [dev-dependencies].  CustomBuild are the     *)
(* projects whose build target is a custom command or a bound task.        *)
(***************************************************************************)
EXTENDS FiniteSets, Naturals

CONSTANTS
    Projects,       \* the projects of the workspace
    Upstream,       \* [Projects -> SUBSET Projects], regular path dependencies
    DevUpstream,    \* [Projects -> SUBSET Projects], dev-only path dependencies
    CustomBuild     \* projects with a custom build command or a bound build task

Targets == {"build", "test", "clean", "format"}

ASSUME ProjectsAssumption ==
    /\ IsFiniteSet(Projects)
    /\ Upstream \in [Projects -> SUBSET Projects]
    /\ DevUpstream \in [Projects -> SUBSET Projects]
    /\ CustomBuild \subseteq Projects

(* upstream_with_dev_for: the two lists merged without duplicates. *)
UpstreamWithDev(p) == Upstream[p] \cup DevUpstream[p]

(* Every non-empty set has a member with no dependency inside the set: the
   merged graph has no cycle, which ProjectGraph::build checks (detect_cycle)
   before any command can run a task. *)
ASSUME AcyclicAssumption ==
    \A S \in SUBSET Projects :
        S # {} => \E p \in S : UpstreamWithDev(p) \cap S = {}

(* target_upstream_projects: dev dependencies count for tests, and for builds
   that run something other than plain `gleam build`. *)
TargetUpstream(target, p) ==
    IF target = "test" \/ (target = "build" /\ p \in CustomBuild)
    THEN UpstreamWithDev(p)
    ELSE Upstream[p]

(* include_upstream_dependencies: the least set with the requested projects and
   the target's dependencies of every member. *)
ClosedUpstream(target, S) == \A p \in S : TargetUpstream(target, p) \subseteq S

WithUpstream(target, requested) ==
    {p \in Projects : \A S \in SUBSET Projects :
        (requested \subseteq S /\ ClosedUpstream(target, S)) => p \in S}

(* selected_project_names: the projects a run acts on. *)
Selection(request) ==
    IF request.withDeps
    THEN WithUpstream(request.target, request.requested)
    ELSE request.requested
================================================================================

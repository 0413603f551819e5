-------------------------------- MODULE Planning --------------------------------
(***************************************************************************)
(* What is decided before a task runs: the project graph and the keys.     *)
(* They share no state.                                                    *)
(***************************************************************************)
EXTENDS WorkspaceGraph, InputKeys

(* The workspace and its graph are what the manifests say, and the keys and the
   affected selection read the same inputs (workspace.rs, graph.rs, cache.rs,
   affected.rs). *)
PlanningSafety == WsSafety /\ KeySafety
================================================================================

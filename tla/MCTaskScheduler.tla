---------------------------- MODULE MCTaskScheduler ----------------------------
(***************************************************************************)
(* A five-project workspace for TLC: app and api depend on lib, lib on     *)
(* core, and bench on core and, for development, on app.  bench has a      *)
(* custom build, so its builds wait for app as its tests do, although it   *)
(* comes before app in the order without dev dependencies.                 *)
(***************************************************************************)
EXTENDS TaskScheduler, TLC

CONSTANTS core, lib, app, api, bench

MCProjects == {core, lib, app, api, bench}
MCUpstream == (core :> {}) @@ (lib :> {core}) @@ (app :> {lib}) @@ (api :> {lib, core})
              @@ (bench :> {core})
MCDevUpstream == [p \in MCProjects |-> IF p = bench THEN {app} ELSE {}]
MCCustomBuild == {bench}
MCOrder == (core :> 1) @@ (bench :> 2) @@ (lib :> 3) @@ (api :> 4) @@ (app :> 5)
MCOrderWithDev == (core :> 1) @@ (lib :> 2) @@ (api :> 3) @@ (app :> 4) @@ (bench :> 5)
================================================================================

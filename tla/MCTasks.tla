-------------------------------- MODULE MCTasks --------------------------------
(***************************************************************************)
(* Instances of the modules about one task and its result, checked in one  *)
(* run.  They share no state: the first step chooses one (part), and the   *)
(* others stay as they begin, so that the states are added, not            *)
(* multiplied.                                                             *)
(***************************************************************************)
EXTENDS TaskExecution, TaskResults, Planning, NamedTasks, TLC

VARIABLE part
vars == <<part, execVars, restVars, bunVars, keyVars, wsVars, nmVars>>
Chosen(p) == part \in {"none", p} /\ part' = p

--------------------------------------------------------------------------------
(* TaskExecution: a format and a build of one project, which race, under a
   plain configuration, a bound task, a required cache without a token, a
   trusted and read-only job, no cache at all, and a required cache that is
   not configured. *)
MCExecTasks == {"t1", "t2"}
MCExecProject == [t1 |-> "p", t2 |-> "p"]
MCExecTarget == [t1 |-> "format", t2 |-> "build"]
MCPlain ==
    [no_cache |-> FALSE, no_restore |-> FALSE, no_store |-> FALSE, no_remote_cache |-> FALSE,
     remote_cache_read_only |-> FALSE, require_remote_cache |-> FALSE, format_check |-> FALSE,
     configured |-> TRUE, bound |-> FALSE, mode |-> "read-write", failure |-> "warn",
     target_remote |-> TRUE, token |-> TRUE, oidc |-> "none", run_id |-> FALSE]
MCExecOptions ==
    {MCPlain,
     [MCPlain EXCEPT !.bound = TRUE],
     [MCPlain EXCEPT !.require_remote_cache = TRUE, !.oidc = "untrusted", !.token = FALSE],
     [MCPlain EXCEPT !.run_id = TRUE, !.oidc = "trusted", !.token = FALSE, !.mode = "read-only"],
     [MCPlain EXCEPT !.no_cache = TRUE],
     [MCPlain EXCEPT !.configured = FALSE, !.require_remote_cache = TRUE]}

(* InputKeys: app reads lib and holds sub, which reads it too; lib is developed
   with tool; with custom builds, declared inputs and workspace inputs. *)
MCKeyProjects == {"app", "lib", "tool", "sub"}
MCKeyRank == ("app" :> 1) @@ ("lib" :> 2) @@ ("sub" :> 3) @@ ("tool" :> 4)
MCKeyRoot == ("app" :> <<"app">>) @@ ("lib" :> <<"lib">>) @@ ("tool" :> <<"tool">>)
             @@ ("sub" :> <<"app", "sub">>)
MCKeyUpstream == ("app" :> {"lib"}) @@ ("lib" :> {}) @@ ("tool" :> {}) @@ ("sub" :> {"lib"})
MCKeyDevUpstream == ("app" :> {}) @@ ("lib" :> {"tool"}) @@ ("tool" :> {}) @@ ("sub" :> {})
MCKeyFiles ==
    {[dir |-> MCKeyRoot[p], kind |-> k] : p \in MCKeyProjects, k \in {"manifest", "src", "test"}}
    \cup {[dir |-> <<"app">>, kind |-> "built"], [dir |-> <<>>, kind |-> "other"],
          [dir |-> <<"lib">>, kind |-> "other"]}
MCNoInputs == [t \in KeyTargets |-> {}]
MCKeyConfigs ==
    {[custom |-> {}, inputs |-> <<>>, workspace |-> MCNoInputs],
     [custom |-> {"lib"}, inputs |-> <<>>, workspace |-> [MCNoInputs EXCEPT !["test"] = {"other"}]],
     [custom |-> {"app"}, inputs |-> (<<"lib", "test">> :> {"manifest", "src", "test", "other"}),
      workspace |-> [MCNoInputs EXCEPT !["test"] = {"other"}, !["build"] = {"other"}]],
     [custom |-> {}, inputs |-> (<<"app", "build">> :> {"src", "inner"}),
      workspace |-> MCNoInputs]}

(* WorkspaceGraph: two members and one project inside the root that is not a
   member, with every combination of dependencies between them, cycles
   included, and a path out of the workspace. *)
MCWsPlace == ("a" :> "member") @@ ("b" :> "member") @@ ("c" :> "inside") @@ ("out" :> "outside")
MCWsDirs == DOMAIN MCWsPlace
MCWsRank == ("a" :> 1) @@ ("b" :> 2) @@ ("c" :> 3)
MCWsNames == DOMAIN MCWsRank
MCWsName == [d \in MCWsDirs |-> IF d = "out" THEN "none" ELSE d]
MCWsPairs == {x \in {"a", "b", "c"} \X {"a", "b", "c"} : x[1] # x[2]}
MCWsDep(n, d, t) == [name |-> n, dir |-> d, table |-> t]
MCWsBase ==
    {[name |-> MCWsName,
      dependencies |-> [d \in MCWsDirs |->
          {MCWsDep(x[2], x[2], f[x]) : x \in {y \in MCWsPairs : y[1] = d /\ f[y] # "none"}}]] :
        f \in [MCWsPairs -> {"none"} \cup WsTables]}
MCWsSimple == {l \in MCWsBase : l.dependencies["b"] = {} /\ l.dependencies["c"] = {}}
MCWsOdd ==
    {[l EXCEPT !.name["c"] = "a"] : l \in MCWsSimple}
    \cup {[l EXCEPT !.name["c"] = "none"] : l \in MCWsSimple}
    \cup {[l EXCEPT !.dependencies["b"] =
             {MCWsDep("c", "out", "dependencies"), MCWsDep("b", "c", "dependencies")}] :
             l \in MCWsSimple}
    \cup {[l EXCEPT !.dependencies["a"] = {MCWsDep("a", "a", "dev-dependencies")}] :
             l \in MCWsSimple}
MCWsLayouts == MCWsBase \cup MCWsOdd
MCWsPlain == [globs |-> TRUE, vendor |-> "none", file |-> WsNoRemote, envUrl |-> "unset",
              envWorkspace |-> "unset", envMode |-> "unset"]
MCWsRemote == [url |-> "https", workspace |-> TRUE, mode |-> "auto", transfers |-> 4]
MCWsConfigs ==
    {MCWsPlain,
     [MCWsPlain EXCEPT !.globs = FALSE],
     [MCWsPlain EXCEPT !.vendor = "in cache"],
     [MCWsPlain EXCEPT !.envUrl = "https"],
     [MCWsPlain EXCEPT !.envUrl = "https", !.envWorkspace = "set"],
     [MCWsPlain EXCEPT !.file = [MCWsRemote EXCEPT !.transfers = 0]],
     [MCWsPlain EXCEPT !.file = MCWsRemote, !.envUrl = "http elsewhere"],
     [MCWsPlain EXCEPT !.file = MCWsRemote, !.envMode = "read-only"]}

(* NamedTasks: a diamond, a chain whose dependency is hashed by its outputs, one
   that is ignored, and tasks bound to targets. *)
MCNmTasks == {"check", "lint", "unit", "build"}
MCCommand == <<[kind |-> "process", of |-> "own"]>>
MCNmTask(deps, strategy, steps, parallel, cached) ==
    [dependencies |-> deps, strategy |-> strategy, steps |-> steps, parallel |-> parallel,
     cached |-> cached]
MCNmStep(kind, of) == [kind |-> kind, of |-> of]
MCNmBase(cached, strategy) ==
    ("check" :> MCNmTask(<<>>, <<>>, <<MCNmStep("task", "lint"), MCNmStep("task", "unit")>>,
                         TRUE, FALSE))
    @@ ("lint" :> MCNmTask(<<"build">>, <<strategy>>, MCCommand, FALSE, TRUE))
    @@ ("unit" :> MCNmTask(<<"build">>, <<"hash">>, MCCommand, FALSE, FALSE))
    @@ ("build" :> MCNmTask(<<>>, <<>>, MCCommand, FALSE, cached))
MCNmBound ==
    [MCNmBase(FALSE, "hash") EXCEPT
        !["check"] = MCNmTask(<<>>, <<>>, <<MCNmStep("target", "p build"), MCNmStep("task", "lint")>>,
                              TRUE, FALSE),
        !["lint"] = MCNmTask(<<>>, <<>>, <<MCNmStep("task", "unit")>>, FALSE, FALSE),
        !["unit"] = MCNmTask(<<>>, <<>>,
                             <<MCNmStep("target", "p test"), MCNmStep("target", "p build")>>,
                             FALSE, FALSE)]
MCNmBeside ==
    [MCNmBase(TRUE, "outputs") EXCEPT
        !["check"] = MCNmTask(<<>>, <<>>, <<MCNmStep("task", "lint"), MCNmStep("target", "p build")>>,
                              TRUE, FALSE)]
MCNmConfigs ==
    {[root |-> "check", of |-> MCNmBase(TRUE, "hash"), bound |-> <<>>, remoteFatal |-> FALSE],
     [root |-> "lint", of |-> [MCNmBase(TRUE, "outputs") EXCEPT !["build"].cached = FALSE],
      bound |-> <<>>, remoteFatal |-> TRUE],
     [root |-> "lint", of |-> MCNmBase(TRUE, "ignored"), bound |-> <<>>, remoteFatal |-> FALSE],
     [root |-> "check", of |-> MCNmBound, bound |-> ("p build" :> "lint"), remoteFatal |-> FALSE],
     [root |-> "check", of |-> MCNmBeside, bound |-> ("p build" :> "lint"), remoteFatal |-> FALSE]}

--------------------------------------------------------------------------------
Init ==
    /\ part = "none"
    /\ ExecInit
    /\ RestInit
    /\ BunInit
    /\ KeyInit
    /\ WsInit
    /\ NmInit

Next ==
    \/ Chosen("execution") /\ ExecNext
       /\ UNCHANGED <<restVars, bunVars, keyVars, wsVars, nmVars>>
    \/ Chosen("restore") /\ RestNext
       /\ UNCHANGED <<execVars, bunVars, keyVars, wsVars, nmVars>>
    \/ Chosen("bundle") /\ BunNext
       /\ UNCHANGED <<execVars, restVars, keyVars, wsVars, nmVars>>
    \/ Chosen("keys") /\ KeyNext
       /\ UNCHANGED <<execVars, restVars, bunVars, wsVars, nmVars>>
    \/ Chosen("workspace") /\ WsNext
       /\ UNCHANGED <<execVars, restVars, bunVars, keyVars, nmVars>>
    \/ Chosen("named") /\ NmNext
       /\ UNCHANGED <<execVars, restVars, bunVars, keyVars, wsVars>>

Spec == Init /\ [][Next]_vars /\ ExecFairness

--------------------------------------------------------------------------------
(* Types of all the parts. *)
TasksTypeOK ==
    /\ ExecTypeOK
    /\ RestTypeOK
    /\ BunTypeOK
    /\ KeyTypeOK
    /\ WsTypeOK
    /\ NmTypeOK
================================================================================

---------------------------- MODULE MCSurroundings ----------------------------
(***************************************************************************)
(* Instances of the modules around the tasks: what keeps a cache, a        *)
(* session, a child process, a screen, vendored packages and the access to *)
(* the server, checked in one run.  They share no state: the first step    *)
(* chooses one (part), and the others stay as they begin, so that the      *)
(* states are added, not multiplied.                                       *)
(***************************************************************************)
EXTENDS CacheEntries, Dependencies, Sessions, Processes, ServerAccess

VARIABLE part
storeVars == <<neVars, prVars>>
sessionVars == <<wtVars, dvVars>>
processVars == <<cpVars, rtVars>>
dependencyVars == <<vnVars, dpVars>>
vars == <<part, storeVars, sessionVars, processVars, dependencyVars, acVars>>
Chosen(p) == part \in {"none", p} /\ part' = p

--------------------------------------------------------------------------------
(* CachePrune: two entries of different size; by age and size, and by size. *)
MCPrSize == [e \in {"a", "b"} |-> IF e = "a" THEN 1 ELSE 2]
MCPrLimits == {[age |-> {0}, size |-> {2}], [age |-> {}, size |-> {1}]}

(* WatchSession: app reads lib; the manifests may also name a callback or a
   blank one, no dependency, only lib, or be broken. *)
MCWtLayout(valid, projects, read, callback) ==
    [valid |-> valid, projects |-> projects,
     upstream |-> [p \in projects |-> IF p = "app" THEN read ELSE {}], callback |-> callback]
MCWtProjects == {"app", "lib"}
MCWtLayouts ==
    {MCWtLayout(TRUE, MCWtProjects, {"lib"}, c) : c \in {"none", "command", "blank"}}
    \cup {MCWtLayout(TRUE, MCWtProjects, {}, "none"), MCWtLayout(TRUE, {"lib"}, {}, "none"),
          MCWtLayout(FALSE, {}, {}, "none")}
MCWtRequest(select, by, withDeps, initialRun) ==
    [select |-> select, by |-> by, withDeps |-> withDeps, initialRun |-> initialRun]
MCWtRequests ==
    {MCWtRequest({"app"}, "target", TRUE, TRUE), MCWtRequest({"app"}, "target", FALSE, TRUE),
     MCWtRequest({"app"}, "configured", FALSE, TRUE), MCWtRequest({}, "target", FALSE, TRUE),
     MCWtRequest({"app"}, "command", FALSE, FALSE)}

(* DevSession: another command, another directory, a broken manifest. *)
MCDvLayout(valid, root, command) == [valid |-> valid, root |-> root, command |-> command]
MCDvLayouts ==
    {MCDvLayout(TRUE, "a", "run"), MCDvLayout(TRUE, "a", "serve"), MCDvLayout(TRUE, "b", "run"),
     MCDvLayout(FALSE, "none", "none")}

MCRtProjects == <<"a", "b">>

(* VendorStore: a Git package replaced by another commit's, and a Hex package by
   a Git one. *)
MCVnPackage(name, version, from) == [name |-> name, version |-> version, from |-> from]
MCVnLocks ==
    {{MCVnPackage("a", 1, "hex"), MCVnPackage("b", 1, "git")},
     {MCVnPackage("a", 1, "hex"), MCVnPackage("b", 2, "git")},
     {MCVnPackage("a", 2, "git")}}
MCVnPackages == UNION MCVnLocks

(* DependencyVersions: three projects, each with one of these lock manifests. *)
MCDpProjects == <<"app", "lib", "tool">>
MCDpPackage(name, source, version, commit, at) ==
    [name |-> name, source |-> source, version |-> version, repo |-> "r", commit |-> commit,
     at |-> at]
MCDpRead(packages) == [state |-> "read", packages |-> packages]
MCDpManifests ==
    {DpMissing, [DpMissing EXCEPT !.state = "broken"], MCDpRead({}),
     MCDpRead({MCDpPackage("x", "hex", "1", "", "nowhere"),
               MCDpPackage("y", "git", "1", "c1", "nowhere")}),
     MCDpRead({MCDpPackage("x", "hex", "2", "", "nowhere"),
               MCDpPackage("l", "local", "1", "", "libs_l")}),
     MCDpRead({MCDpPackage("x", "git", "1", "c1", "nowhere"),
               MCDpPackage("y", "git", "1", "c2", "nowhere")}),
     MCDpRead({MCDpPackage("l", "local", "1", "", "libs_old")}),
     MCDpRead({MCDpPackage("l", "local", "1", "", "away")}),
     MCDpRead({MCDpPackage("l", "local", "1", "", "nowhere")})}
MCDpDeclared ==
    [libs_l |-> [state |-> "read", name |-> "l", version |-> "1"],
     libs_old |-> [state |-> "read", name |-> "l", version |-> "0"],
     away |-> [state |-> "outside", name |-> "", version |-> ""]]
MCDpConfigs ==
    {DpNone, [DpNone EXCEPT !.includeLocal = TRUE],
     [DpNone EXCEPT !.ignore = {"y"}, !.vendor = "ok"], [DpNone EXCEPT !.vendor = "bad"]}

(* ServerAccess: tokens are rotated, one of them becoming the writer, and a pull
   request's job may write to its run's scope only. *)
MCAcTokens == {"A", "B", "C"}
MCAcConfigs == {[read |-> "A", write |-> "B"], [read |-> "B", write |-> "C"]}
MCAcRules ==
    {[workflow |-> "any", refs |-> {"main"}, environments |-> {"prod"},
      capabilities |-> {"shared", "run"} \X BOOLEAN]}
MCAcClaims ==
    {[id |-> "c1", workflow |-> "ci", ref |-> "pr", environment |-> "none", run |-> "1"]}

--------------------------------------------------------------------------------
Init ==
    /\ part = "none"
    /\ NeInit
    /\ PrInit
    /\ WtInit
    /\ DvInit
    /\ CpInit
    /\ RtInit
    /\ VnInit
    /\ DpInit
    /\ AcInit

Next ==
    \/ Chosen("entries") /\ NeNext
       /\ UNCHANGED <<prVars, sessionVars, processVars, dependencyVars, acVars>>
    \/ Chosen("prune") /\ PrNext
       /\ UNCHANGED <<neVars, sessionVars, processVars, dependencyVars, acVars>>
    \/ Chosen("watch") /\ WtNext
       /\ UNCHANGED <<storeVars, dvVars, processVars, dependencyVars, acVars>>
    \/ Chosen("dev") /\ DvNext
       /\ UNCHANGED <<storeVars, wtVars, processVars, dependencyVars, acVars>>
    \/ Chosen("child") /\ CpNext
       /\ UNCHANGED <<storeVars, sessionVars, rtVars, dependencyVars, acVars>>
    \/ Chosen("terminal") /\ RtNext
       /\ UNCHANGED <<storeVars, sessionVars, cpVars, dependencyVars, acVars>>
    \/ Chosen("vendor") /\ VnNext
       /\ UNCHANGED <<storeVars, sessionVars, processVars, dpVars, acVars>>
    \/ Chosen("versions") /\ DpNext
       /\ UNCHANGED <<storeVars, sessionVars, processVars, vnVars, acVars>>
    \/ Chosen("access") /\ AcNext
       /\ UNCHANGED <<storeVars, sessionVars, processVars, dependencyVars>>

Spec == Init /\ [][Next]_vars

--------------------------------------------------------------------------------
(* Types of all the parts. *)
SurroundingsTypeOK ==
    /\ NeTypeOK
    /\ PrTypeOK
    /\ WtTypeOK
    /\ DvTypeOK
    /\ CpTypeOK
    /\ RtTypeOK
    /\ VnTypeOK
    /\ DpTypeOK
    /\ AcTypeOK
================================================================================

--------------------------- MODULE DependencyVersions ---------------------------
(***************************************************************************)
(* `gomo deps` (src/dependency_versions.rs): the lock manifests of all     *)
(* projects are read one after the other, what they lock is grouped by     *)
(* name and source, and each local package is compared with what it        *)
(* declares.  One group with two resolutions, one manifest missing or      *)
(* unreadable, or one local package that differs makes the check fail.     *)
(***************************************************************************)
EXTENDS Naturals, FiniteSets, Sequences

CONSTANTS
    DpProjects,     \* in the order of the workspace
    DpManifests,    \* the lock manifests considered: [state, packages], a package being
                    \*  [name, source: "hex", "git" or "local", version, repo, commit, at]
    DpDeclared,     \* what is at each place a local package is at: [state, name, version]
    DpConfigs       \* [ignore, includeLocal, vendor: "none", "ok" or "bad"]

(* A lock manifest with a package without a version cannot be read. *)
ASSUME DpAssumption ==
    /\ DpProjects \in Seq({DpProjects[i] : i \in 1..Len(DpProjects)})
    /\ \A m \in DpManifests :
          /\ m.state \in {"missing", "broken", "read"} /\ IsFiniteSet(m.packages)
          /\ \A a \in m.packages : a.version # "" /\ a.at \in {"nowhere"} \cup DOMAIN DpDeclared
    /\ \A p \in DOMAIN DpDeclared :
          LET d == DpDeclared[p]
          IN  /\ d.state \in {"dangling", "outside", "no gleam.toml", "broken", "read"}
              /\ d = [state |-> d.state, name |-> d.name, version |-> d.version]

VARIABLES
    dpAt,           \* "idle", "read" or "done"
    dpConfig,       \* the configuration, and the outcome of the vendoring check
    dpManifest,     \* the manifest of each project
    dpReading,         \* the project to be read next
    dpGroups,       \* [<<name, source>> -> the resolutions found]
    dpIssues,       \* the missing and broken manifests and the local packages that differ
    dpExit          \* the exit code

dpVars == <<dpAt, dpConfig, dpManifest, dpReading, dpGroups, dpIssues, dpExit>>

DpNone == [ignore |-> {}, includeLocal |-> FALSE, vendor |-> "none"]
DpMissing == [state |-> "missing", packages |-> {}]
DpIndex == 1..Len(DpProjects)
DpAll == {DpProjects[i] : i \in DpIndex}

DpInit ==
    /\ dpAt = "idle" /\ dpConfig = DpNone /\ dpManifest = [p \in DpAll |-> DpMissing]
    /\ dpReading = 1 /\ dpGroups = [k \in {} |-> {}] /\ dpIssues = {} /\ dpExit = 0

DpBegin ==
    /\ dpAt = "idle" /\ dpAt' = "read"
    /\ dpConfig' \in DpConfigs
    /\ dpManifest' \in [DpAll -> DpManifests]
    /\ UNCHANGED <<dpReading, dpGroups, dpIssues, dpExit>>

--------------------------------------------------------------------------------
DpSkips(a) ==
    \/ a.name \in dpConfig.ignore
    \/ a.source = "local" /\ ~dpConfig.includeLocal

(* Only a Git package is known by its repository and commit too. *)
DpResolution_Version(a) == [version |-> a.version, repo |-> "", commit |-> ""]  \* mutant
DpResolution(a) ==
    IF a.source = "git" THEN [version |-> a.version, repo |-> a.repo, commit |-> a.commit]
    ELSE [version |-> a.version, repo |-> "", commit |-> ""]

(* check_local_package: a path, that resolves, inside the workspace, to a
   manifest that can be read and declares that name and version. *)
DpLocalIssue(a) ==
    IF a.at = "nowhere" THEN "no path"
    ELSE LET d == DpDeclared[a.at]
         IN  CASE d.state \in {"dangling", "outside", "no gleam.toml", "broken"} -> d.state
               [] d.state = "read" /\ d.name # a.name -> "another name"
               [] d.state = "read" /\ d.name = a.name /\ d.version = "" -> "no version"
               [] d.state = "read" /\ d.name = a.name /\ d.version \notin {"", a.version} ->
                    "another version"
               [] OTHER -> "none"

DpKey(a) == <<a.name, a.source>>
DpAdd(groups, as) ==
    [k \in DOMAIN groups \cup {DpKey(a) : a \in as} |->
        (IF k \in DOMAIN groups THEN groups[k] ELSE {})
        \cup {DpResolution(a) : a \in {b \in as : DpKey(b) = k}}]

DpReadManifest ==
    /\ dpAt = "read" /\ dpReading <= Len(DpProjects)
    /\ LET p == DpProjects[dpReading]
           m == dpManifest[p]
           as == IF m.state = "read" THEN {a \in m.packages : ~DpSkips(a)} ELSE {}
       IN  /\ dpGroups' = DpAdd(dpGroups, as)
           /\ dpIssues' = dpIssues \cup
                (IF m.state = "read" THEN {} ELSE {<<p, m.state>>}) \cup
                {<<p, DpLocalIssue(a)>> :
                    a \in {b \in as : b.source = "local" /\ DpLocalIssue(b) # "none"}}
    /\ dpReading' = dpReading + 1
    /\ UNCHANGED <<dpAt, dpConfig, dpManifest, dpExit>>

DpMismatches == {k \in DOMAIN dpGroups : Cardinality(dpGroups[k]) > 1}
DpIsSuccess == dpIssues = {} /\ DpMismatches = {}

(* combined_is_success *)
DpFinish ==
    /\ dpAt = "read" /\ dpReading > Len(DpProjects)
    /\ dpAt' = "done"
    /\ dpExit' = IF DpIsSuccess /\ dpConfig.vendor # "bad" THEN 0 ELSE 1
    /\ UNCHANGED <<dpConfig, dpManifest, dpReading, dpGroups, dpIssues>>

DpNext ==
    \/ DpBegin
    \/ DpReadManifest
    \/ DpFinish

DpSpec == DpInit /\ [][DpNext]_dpVars

--------------------------------------------------------------------------------
(* Types.                                                                  *)
DpTypeOK ==
    /\ dpAt \in {"idle", "read", "done"} /\ dpConfig \in DpConfigs \cup {DpNone}
    /\ dpReading \in 1..(Len(DpProjects) + 1) /\ dpExit \in {0, 1}

(* The check succeeds exactly when no two projects disagree, whichever they
   are: every manifest can be read, any two packages of one name and source
   that count are the same package, and every local package that counts is
   what it is locked as. *)
DpCounted == {x \in DpAll \X UNION {m.packages : m \in DpManifests} :
                 x[2] \in dpManifest[x[1]].packages /\ x[2].name \notin dpConfig.ignore
                 /\ (x[2].source = "local" => dpConfig.includeLocal)}
DpSamePackage(a, b) ==
    a.version = b.version /\ (a.source = "git" => a.repo = b.repo /\ a.commit = b.commit)
DpAgrees ==
    /\ \A p \in DpAll : dpManifest[p].state = "read"
    /\ \A x, y \in DpCounted :
           x[2].name = y[2].name /\ x[2].source = y[2].source => DpSamePackage(x[2], y[2])
    /\ \A x \in DpCounted : x[2].source = "local" =>
           /\ x[2].at # "nowhere"
           /\ DpDeclared[x[2].at] = [state |-> "read", name |-> x[2].name, version |-> x[2].version]
DpSafety == dpAt = "done" => (dpExit = 0 <=> DpAgrees /\ dpConfig.vendor # "bad")
================================================================================

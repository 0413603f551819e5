-------------------------------- MODULE InputKeys --------------------------------
(***************************************************************************)
(* What a cache key covers and what `gomo affected` selects.               *)
(*                                                                         *)
(* compute_task_hash of src/cache.rs walks forward: from a project to its  *)
(* input files, the workspace's and the keys of its dependencies.          *)
(* select_affected_projects of src/affected.rs walks backward: from the    *)
(* changed files (src/vcs.rs, or --files) to their owners and to everyone  *)
(* downstream.  The two are written independently of each other, and a     *)
(* continuous-integration run is right to skip a project only when they    *)
(* agree.                                                                  *)
(*                                                                         *)
(* A glob list is the set of the kinds of file it matches.  A key is the   *)
(* record of what was hashed, so two keys are equal when their ingredients *)
(* are.  The gleam version, the platform and the environment are those of  *)
(* one machine and left out.                                               *)
(***************************************************************************)
EXTENDS Naturals, FiniteSets, Sequences

CONSTANTS
    KeyProjects,    \* the projects, and
    KeyRank,        \* [KeyProjects -> Nat], their alphabetical order
    KeyRoot,        \* [KeyProjects -> Seq(directories)]
    KeyUpstream,    \* [KeyProjects -> SUBSET KeyProjects], regular dependencies
    KeyDevUpstream, \* [KeyProjects -> SUBSET KeyProjects], dev dependencies
    KeyFiles,       \* the files: [dir : Seq(directories), kind : KeyKinds]
    KeyConfigs,     \* the configurations considered
    KeyMaxEdits     \* bound: how many times a file changes

KeyKinds == {"manifest", "src", "test", "other", "built"}
KeyTargets == {"build", "test", "format"}

ASSUME KeyAssumption ==
    /\ KeyMaxEdits \in Nat /\ KeyRank \in [KeyProjects -> Nat]
    /\ KeyUpstream \in [KeyProjects -> SUBSET KeyProjects]
    /\ KeyDevUpstream \in [KeyProjects -> SUBSET KeyProjects]
    /\ IsFiniteSet(KeyProjects)
    /\ \A S \in SUBSET KeyProjects : S # {} =>      \* detect_cycle of src/graph.rs
          \E p \in S : (KeyUpstream[p] \cup KeyDevUpstream[p]) \cap S = {}
    /\ \A p \in KeyProjects : KeyRoot[p] \in Seq(STRING)
    /\ \A f \in KeyFiles : f.dir \in Seq(STRING)

VARIABLES
    keyAt,          \* "idle", "editing" or "selected"
    keyConfig,      \* the configuration of the workspace
    keyBase,        \* [KeyFiles -> contents] at the base revision
    keyNow,         \* and in the working copy
    keyEdits,       \* how many edits there have been
    keyTarget,      \* the target of `gomo affected`
    keySelected     \* the projects it selected, in their order

keyVars == <<keyAt, keyConfig, keyBase, keyNow, keyEdits, keyTarget, keySelected>>

KeyContents == {"absent", "old", "new"}
KeyNothing == [f \in KeyFiles |-> "absent"]

--------------------------------------------------------------------------------
(* The inputs of a task.                                                   *)

KeyDefaults(t) == IF t = "build" THEN {"manifest", "src"} ELSE {"manifest", "src", "test"}

(* effective_input_globs: an override replaces the defaults. *)
KeyGlobs(c, p, t) ==
    IF <<p, t>> \in DOMAIN c.inputs THEN c.inputs[<<p, t>>] ELSE KeyDefaults(t)

KeyUnder(f, p) ==
    /\ Len(KeyRoot[p]) <= Len(f.dir)
    /\ SubSeq(f.dir, 1, Len(KeyRoot[p])) = KeyRoot[p]

(* owning_project: the project with the longest root over the file. *)
KeyOwner(f, p) ==
    KeyUnder(f, p) /\ \A q \in KeyProjects : KeyUnder(f, q) => Len(KeyRoot[q]) <= Len(KeyRoot[p])

(* What a file is, seen from the root of p: the walk of an outer project
   enters the directory of an inner one. *)
KeyKindFor(f, p) == IF KeyOwner(f, p) THEN f.kind ELSE "inner"

(* expand_input_globs: the files of the walk that the globs match; the walk
   does not enter the project's cached output folders. *)
KeyInputFiles(c, content, p, t) ==
    {f \in KeyFiles : /\ content[f] # "absent"
                      /\ KeyUnder(f, p) /\ KeyKindFor(f, p) # "built"
                      /\ KeyKindFor(f, p) \in KeyGlobs(c, p, t)}

(* expand_workspace_input_globs, for globs that name files outside projects;
   this walk stays out of output folders too. *)
KeyWorkspaceFiles(c, content, t) ==
    {f \in KeyFiles : /\ content[f] # "absent"
                      /\ f.dir = <<>> /\ f.kind # "built" /\ f.kind \in c.workspace[t]}

KeyHashed(content, files) == {<<f, content[f]>> : f \in files}
KeyManifest(content, p) == {<<f, content[f]>> : f \in {g \in KeyFiles : KeyOwner(g, p) /\ g.kind = "manifest"}}

(* task_hash_dependencies and dependency_task_target: a test and a custom
   build take dev dependencies too, and always by their build keys. *)
KeyDependencies(c, p, t) ==
    IF t = "format" THEN {}
    ELSE KeyUpstream[p] \cup (IF t = "test" \/ p \in c.custom THEN KeyDevUpstream[p] ELSE {})

(* compute_task_hash_inner.  The memo of the code is the function itself. *)
KeyOf(c, content, p, t, dependencies) ==
    [project |-> p, target |-> t, custom |-> p \in c.custom,
     globs |-> KeyGlobs(c, p, t), workspaceGlobs |-> c.workspace[t],
     manifest |-> KeyManifest(content, p),
     inputs |-> KeyHashed(content, KeyInputFiles(c, content, p, t)),
     workspace |-> KeyHashed(content, KeyWorkspaceFiles(c, content, t)),
     dependencies |-> dependencies]

KeyAll(c, content) ==
    LET key[p \in KeyProjects] ==
          [t \in KeyTargets |->
              KeyOf(c, content, p, t, {key[q]["build"] : q \in KeyDependencies(c, p, t)})]
    IN  key

--------------------------------------------------------------------------------
(* The affected projects.                                                  *)

(* git_changed_files, jj_changed_files: what differs from the base revision,
   created and deleted files included, but not what is ignored: here, what
   is in output folders. *)
KeyChanged == {f \in KeyFiles : keyBase[f] # keyNow[f] /\ f.kind # "built"}

KeyAllMatched(c, t) == \E f \in KeyChanged : f.dir = <<>> /\ f.kind \in c.workspace[t]

KeyMatched(c, t) ==
    {p \in KeyProjects : \E f \in KeyChanged : KeyOwner(f, p) /\ f.kind \in KeyGlobs(c, p, t)}

(* target_downstream_projects *)
KeyDownstream_Regular(c, p, t) ==
    {q \in KeyProjects : t # "format" /\ p \in KeyUpstream[q]}    \* mutant: dev dependents forgotten
KeyDownstream(c, p, t) ==
    {q \in KeyProjects :
        CASE t = "test" -> p \in KeyUpstream[q] \cup KeyDevUpstream[q]
          [] t = "build" -> p \in KeyUpstream[q] \/ (q \in c.custom /\ p \in KeyDevUpstream[q])
          [] OTHER -> FALSE}

(* include_downstream_dependents: the least set that is closed downstream. *)
KeyWithDownstream(c, t, from) ==
    {p \in KeyProjects : \A S \in SUBSET KeyProjects :
        (from \subseteq S /\ \A q \in S : KeyDownstream(c, q, t) \subseteq S) => p \in S}

KeyAffected(c, t) ==
    IF KeyAllMatched(c, t) THEN KeyProjects ELSE KeyWithDownstream(c, t, KeyMatched(c, t))

(* target_topological_order: topological_order of src/graph.rs takes the
   alphabetically first project whose dependencies are all placed. *)
KeyOrderUpstream(p, t) ==
    IF t = "format" THEN KeyUpstream[p] ELSE KeyUpstream[p] \cup KeyDevUpstream[p]

KeyIn(s) == {s[i] : i \in 1..Len(s)}
KeyReady(t, placed) == {p \in KeyProjects \ placed : KeyOrderUpstream(p, t) \subseteq placed}
KeyFirst(S) == CHOOSE p \in S : \A q \in S : KeyRank[p] <= KeyRank[q]

KeyOrder(t) ==
    LET order[n \in 0..Cardinality(KeyProjects)] ==
          IF n = 0 THEN <<>>
          ELSE Append(order[n - 1], KeyFirst(KeyReady(t, KeyIn(order[n - 1]))))
    IN  order[Cardinality(KeyProjects)]

(* ... and the affected of them. *)
KeyChosen(order, affected) ==
    LET chosen[i \in 0..Len(order)] ==
          IF i = 0 THEN <<>>
          ELSE IF order[i] \in affected THEN Append(chosen[i - 1], order[i]) ELSE chosen[i - 1]
    IN  chosen[Len(order)]

--------------------------------------------------------------------------------
KeyInit ==
    /\ keyAt = "idle" /\ keyConfig = <<>> /\ keyBase = KeyNothing /\ keyNow = KeyNothing
    /\ keyEdits = 0 /\ keyTarget = "none" /\ keySelected = <<>>

(* The base revision: every file is there but at most one. *)
KeyOpen ==
    /\ keyAt = "idle"
    /\ \E c \in KeyConfigs, missing \in {{}} \cup {{f} : f \in {g \in KeyFiles : g.kind # "manifest"}} :
         /\ keyConfig' = c
         /\ keyBase' = [f \in KeyFiles |-> IF f \in missing THEN "absent" ELSE "old"]
         /\ keyNow' = keyBase'
    /\ keyAt' = "editing"
    /\ UNCHANGED <<keyEdits, keyTarget, keySelected>>

(* The user creates, changes, deletes or puts back a file.  Without its
   manifest a project would not be one. *)
KeyEdit(f) ==
    /\ keyAt = "editing" /\ keyEdits < KeyMaxEdits
    /\ \E v \in KeyContents \ {keyNow[f]} :
         /\ f.kind = "manifest" => v # "absent"
         /\ keyNow' = [keyNow EXCEPT ![f] = v]
    /\ keyEdits' = keyEdits + 1
    /\ UNCHANGED <<keyAt, keyConfig, keyBase, keyTarget, keySelected>>

(* gomo affected --target t --base *)
KeySelect(t) ==
    /\ keyAt = "editing"
    /\ keyAt' = "selected" /\ keyTarget' = t
    /\ keySelected' = KeyChosen(KeyOrder(t), KeyAffected(keyConfig, t))
    /\ UNCHANGED <<keyConfig, keyBase, keyNow, keyEdits>>

KeyNext ==
    \/ KeyOpen
    \/ \E f \in KeyFiles : KeyEdit(f)
    \/ \E t \in KeyTargets : KeySelect(t)

KeySpec == KeyInit /\ [][KeyNext]_keyVars

--------------------------------------------------------------------------------
(* Types.                                                                  *)
KeyTypeOK ==
    /\ keyAt \in {"idle", "editing", "selected"}
    /\ keyBase \in [KeyFiles -> KeyContents] /\ keyNow \in [KeyFiles -> KeyContents]
    /\ keyEdits \in 0..KeyMaxEdits /\ keyTarget \in KeyTargets \cup {"none"}
    /\ keySelected \in Seq(KeyProjects)

(* The configurations in which the two directions can agree.  The manifest
   is hashed whatever the globs say, a dependency is hashed by its build
   inputs whatever the target, and an outer project is hashed with the files
   of the inner one: each makes a key change that `affected` cannot see, see
   the README. *)
KeyUniform(c) ==
    /\ \A p \in KeyProjects, t \in KeyTargets :
         /\ "manifest" \in KeyGlobs(c, p, t)
         /\ "inner" \in KeyGlobs(c, p, t) =>
              \A q \in KeyProjects \ {p} : SubSeq(KeyRoot[q], 1, Len(KeyRoot[p])) # KeyRoot[p]
    /\ \A p \in KeyProjects : KeyGlobs(c, p, "build") \subseteq KeyGlobs(c, p, "test")
    /\ c.workspace["build"] \subseteq c.workspace["test"]

(* A project left out of the selection has, for that target, the key it had
   at the base revision: whoever validated the base validated it too. *)
KeyAffectedCoversKeys ==
    (keyAt = "selected" /\ KeyUniform(keyConfig)) =>
        \A p \in KeyProjects \ KeyIn(keySelected) :
            KeyAll(keyConfig, keyBase)[p][keyTarget] = KeyAll(keyConfig, keyNow)[p][keyTarget]

(* What gleam compiles with p: its dependencies, their regular dependencies,
   and so on. *)
KeyDirect(p, t) == KeyUpstream[p] \cup (IF t = "test" THEN KeyDevUpstream[p] ELSE {})

KeySources(direct) ==
    {q \in KeyProjects : \A S \in SUBSET KeyProjects :
        (direct \subseteq S /\ \A r \in S : KeyUpstream[r] \subseteq S) => q \in S}

(* An entry found under a key was made from the same sources: a key that did
   not change means that no source file of the project changed, nor one of a
   package that gleam compiles with it, as long as those are inputs. *)
KeyCoversSources ==
    keyAt = "selected" =>
        \A p \in KeyProjects :
            (keyTarget # "format" /\ KeyAll(keyConfig, keyBase)[p][keyTarget]
                                       = KeyAll(keyConfig, keyNow)[p][keyTarget]) =>
                \A q \in {p} \cup KeySources(KeyDirect(p, keyTarget)), f \in KeyFiles :
                    (/\ KeyOwner(f, q) /\ f.kind \in {"src", "manifest"}
                     /\ "src" \in KeyGlobs(keyConfig, q, IF q = p THEN keyTarget ELSE "build"))
                        => keyBase[f] = keyNow[f]

(* A selected project comes after every selected project its key is made of. *)
KeySelectionIsOrdered ==
    \A i, j \in 1..Len(keySelected) :
        keySelected[i] \in KeyDependencies(keyConfig, keySelected[j], keyTarget) => i < j

KeySafety == KeyAffectedCoversKeys /\ KeyCoversSources /\ KeySelectionIsOrdered
================================================================================

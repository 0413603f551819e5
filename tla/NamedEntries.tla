------------------------------ MODULE NamedEntries ------------------------------
(***************************************************************************)
(* The cache entry of a named task (src/commands/task.rs, and the named    *)
(* entries of src/cache.rs): how a run validates it, restores the declared *)
(* outputs from it, or runs the task and stores a new one.  Inside one     *)
(* gomo process the lock of the task keeps two runs apart (NamedTasks);    *)
(* nothing does so between processes.  A store writes a directory of its   *)
(* own and renames it to the entry; a restore unpacks into a directory     *)
(* inside the entry, and then replaces the outputs one by one.             *)
(*                                                                         *)
(* A result is the output folders a run of the task made, with the text it *)
(* printed; the results of two runs may differ, so each is named after the *)
(* process that made it.                                                   *)
(***************************************************************************)
EXTENDS Naturals, FiniteSets

CONSTANTS
    NeProcs,        \* gomo processes that run the task
    NeOutputs,      \* how many outputs the task declares
    NeMaxDamages    \* bound: how often the disk damages the entry

ASSUME NeAssumption ==
    /\ NeOutputs \in Nat \ {0} /\ NeMaxDamages \in Nat
    /\ NeProcs \cap {"none", "damaged"} = {}

VARIABLES
    neAt,           \* where each process is
    neEntry,        \* the entry: [text, outs, sound], or NeNoEntry
    neTemps,        \* the processes with a restore directory inside the entry
    neOut,          \* whose result each output in the workspace is, or "none"
    neHeld,         \* what each process has unpacked or packed
    neIndex,        \* the output its loop of replacements is at
    neText,         \* whose text it printed, once it is done
    neOverlap,      \* history: two processes were at work at a time
    neDamages       \* how often the entry has been damaged

neVars == <<neAt, neEntry, neTemps, neOut, neHeld, neIndex, neText, neOverlap, neDamages>>

NeIndexes == 1..NeOutputs
NeNone == [i \in NeIndexes |-> "none"]
NeNoEntry == [text |-> "none", outs |-> NeNone, sound |-> FALSE]
NeResults == NeProcs
NeAtRest == {"idle", "hit", "stored", "failed", "dead"}
NeBusy == {p \in NeProcs : neAt[p] \notin NeAtRest}

(* A directory is there when it holds an entry, or what a restore put in it. *)
NeEntryExists == neEntry # NeNoEntry \/ neTemps # {}

--------------------------------------------------------------------------------
NeInit ==
    /\ neAt = [p \in NeProcs |-> "idle"] /\ neEntry = NeNoEntry /\ neTemps = {}
    /\ neOut = NeNone /\ neHeld = [p \in NeProcs |-> NeNone]
    /\ neIndex = [p \in NeProcs |-> 1] /\ neText = [p \in NeProcs |-> "none"]
    /\ neOverlap = FALSE /\ neDamages = 0

NeGo(p, next) == neAt' = [neAt EXCEPT ![p] = next]
NeFails(p) ==
    /\ NeGo(p, "failed")
    /\ UNCHANGED <<neEntry, neTemps, neOut, neHeld, neIndex, neText, neOverlap, neDamages>>

(* validate_named_task_entry: the metadata must fit the task, and the digests
   the files. *)
NeValid_Present == neEntry.text # "none"        \* mutant: the digests are not compared
NeValid == neEntry.sound
NeLook(p) ==
    /\ neAt[p] = "idle"
    /\ NeGo(p, IF NeValid THEN "unpack" ELSE "run")
    /\ neOverlap' = (neOverlap \/ NeBusy # {})
    /\ UNCHANGED <<neEntry, neTemps, neOut, neHeld, neIndex, neText, neDamages>>

--------------------------------------------------------------------------------
(* restore_named_outputs.  The archive may be gone since it was validated: to
   the first look that is a miss, after it an error.  Making the directory
   makes the entry's directory again. *)
NeUnpackBegins(p) ==
    /\ neAt[p] = "unpack"
    /\ NeGo(p, IF neEntry = NeNoEntry THEN "run" ELSE "temp")
    /\ UNCHANGED <<neEntry, neTemps, neOut, neHeld, neIndex, neText, neOverlap, neDamages>>
NeMakeTemp(p) ==
    /\ neAt[p] = "temp" /\ NeGo(p, "unpacking") /\ neTemps' = neTemps \cup {p}
    /\ UNCHANGED <<neEntry, neOut, neHeld, neIndex, neText, neOverlap, neDamages>>
NeUnpack(p) ==
    /\ neAt[p] = "unpacking" /\ neEntry # NeNoEntry /\ p \in neTemps
    /\ neHeld' = [neHeld EXCEPT ![p] = neEntry.outs]
    /\ NeGo(p, "install") /\ neIndex' = [neIndex EXCEPT ![p] = 1]
    /\ UNCHANGED <<neEntry, neTemps, neOut, neText, neOverlap, neDamages>>

(* The archive does not unpack (its directory has been replaced under it, or
   what is in it is refused), or an output cannot be replaced. *)
NeUnpackFails(p) ==
    /\ neAt[p] \in {"unpacking", "install", "placing"}
    /\ neTemps' = neTemps \ {p} /\ NeGo(p, "failed")
    /\ UNCHANGED <<neEntry, neOut, neHeld, neIndex, neText, neOverlap, neDamages>>

(* One output: what is there is removed, then the restored one is renamed to
   its place; the directory it comes from may have been removed meanwhile. *)
NeRemoveOutput(p) ==
    /\ neAt[p] = "install" /\ p \in neTemps
    /\ neOut' = [neOut EXCEPT ![neIndex[p]] = "none"]
    /\ NeGo(p, "placing")
    /\ UNCHANGED <<neEntry, neTemps, neHeld, neIndex, neText, neOverlap, neDamages>>
NePlaceOutput(p) ==
    /\ neAt[p] = "placing" /\ p \in neTemps /\ neOut[neIndex[p]] = "none"
    /\ neOut' = [neOut EXCEPT ![neIndex[p]] = neHeld[p][neIndex[p]]]
    /\ IF neIndex[p] < NeOutputs
       THEN NeGo(p, "install") /\ neIndex' = [neIndex EXCEPT ![p] = @ + 1] /\ UNCHANGED neTemps
       ELSE NeGo(p, "read") /\ neTemps' = neTemps \ {p} /\ UNCHANGED neIndex
    /\ UNCHANGED <<neEntry, neHeld, neText, neOverlap, neDamages>>

(* read_named_task_output: a file that is missing reads as no text. *)
NeRead(p) ==
    /\ neAt[p] = "read" /\ NeGo(p, "hit")
    /\ neText' = [neText EXCEPT ![p] = neEntry.text]
    /\ UNCHANGED <<neEntry, neTemps, neOut, neHeld, neIndex, neOverlap, neDamages>>

--------------------------------------------------------------------------------
(* A miss: the steps run, and make the outputs they declare, or not all. *)
NeRun(p) ==
    /\ neAt[p] = "run"
    /\ \/ /\ \E made \in SUBSET NeIndexes :
               neOut' = [i \in NeIndexes |-> IF i \in made THEN p ELSE neOut[i]]
          /\ NeGo(p, "check") /\ neText' = [neText EXCEPT ![p] = p]
       \/ NeGo(p, "failed") /\ UNCHANGED <<neOut, neText>>
    /\ UNCHANGED <<neEntry, neTemps, neHeld, neIndex, neOverlap, neDamages>>

(* store_named_cache_entry: nothing to do when the entry is valid by now; a
   declared output that is missing fails the task. *)
NeStoreBegins(p) ==
    /\ neAt[p] = "check"
    /\ IF NeValid THEN NeGo(p, "stored") /\ UNCHANGED neHeld
       ELSE IF \E i \in NeIndexes : neOut[i] = "none" THEN NeGo(p, "failed") /\ UNCHANGED neHeld
       ELSE NeGo(p, "replace") /\ neHeld' = [neHeld EXCEPT ![p] = neOut]
    /\ UNCHANGED <<neEntry, neTemps, neOut, neIndex, neText, neOverlap, neDamages>>
NeStoreFails(p) == neAt[p] \in {"check", "replace", "rename"} /\ NeFails(p)

(* exists and remove_dir_all, which takes the directories of restores with it. *)
NeReplace(p) ==
    /\ neAt[p] = "replace" /\ NeGo(p, "rename")
    /\ neEntry' = NeNoEntry /\ neTemps' = {}
    /\ UNCHANGED <<neOut, neHeld, neIndex, neText, neOverlap, neDamages>>

(* The rename fails when another store, or a restore that made the directory
   again, was there first: the task that ran well has failed then. *)
NeRename(p) ==
    /\ neAt[p] = "rename"
    /\ IF NeEntryExists THEN NeGo(p, "failed") /\ UNCHANGED neEntry
       ELSE /\ NeGo(p, "stored")
            /\ neEntry' = [text |-> p, outs |-> neHeld[p], sound |-> TRUE]
    /\ UNCHANGED <<neTemps, neOut, neHeld, neIndex, neText, neOverlap, neDamages>>

--------------------------------------------------------------------------------
(* A process is killed, and another one is started. *)
NeDies(p) ==
    /\ neAt[p] \notin NeAtRest /\ NeGo(p, "dead")
    /\ UNCHANGED <<neEntry, neTemps, neOut, neHeld, neIndex, neText, neOverlap, neDamages>>

(* The disk damages the archive while nobody is at work. *)
NeDamage ==
    /\ neDamages < NeMaxDamages /\ neEntry # NeNoEntry /\ NeBusy = {}
    /\ neDamages' = neDamages + 1
    /\ neEntry' = [text |-> neEntry.text, outs |-> [i \in NeIndexes |-> "damaged"],
                   sound |-> FALSE]
    /\ UNCHANGED <<neAt, neTemps, neOut, neHeld, neIndex, neText, neOverlap>>

(* The outputs are cleaned away. *)
NeClean ==
    /\ NeBusy = {} /\ neOut # NeNone /\ neOut' = NeNone
    /\ UNCHANGED <<neAt, neEntry, neTemps, neHeld, neIndex, neText, neOverlap, neDamages>>

NeNext ==
    \/ \E p \in NeProcs : NeLook(p)
    \/ \E p \in NeProcs : NeUnpackBegins(p)
    \/ \E p \in NeProcs : NeMakeTemp(p)
    \/ \E p \in NeProcs : NeUnpack(p)
    \/ \E p \in NeProcs : NeUnpackFails(p)
    \/ \E p \in NeProcs : NeRemoveOutput(p)
    \/ \E p \in NeProcs : NePlaceOutput(p)
    \/ \E p \in NeProcs : NeRead(p)
    \/ \E p \in NeProcs : NeRun(p)
    \/ \E p \in NeProcs : NeStoreBegins(p)
    \/ \E p \in NeProcs : NeStoreFails(p)
    \/ \E p \in NeProcs : NeReplace(p)
    \/ \E p \in NeProcs : NeRename(p)
    \/ \E p \in NeProcs : NeDies(p)
    \/ NeDamage
    \/ NeClean

NeSpec == NeInit /\ [][NeNext]_neVars

--------------------------------------------------------------------------------
NeTypeOK ==
    /\ \A p \in NeProcs : neAt[p] \in NeAtRest \cup
           {"unpack", "temp", "unpacking", "install", "placing", "read", "run", "check",
            "replace", "rename"}
    /\ neTemps \subseteq NeProcs
    /\ \A i \in NeIndexes : neOut[i] \in NeResults \cup {"none", "damaged"}
    /\ neDamages \in 0..NeMaxDamages

(* An entry that validates holds every declared output, and never a damaged
   one; unless two processes were at work at a time, it holds the outputs the
   process whose text it replays left in the workspace. *)
NeEntryIsWhole ==
    neEntry.sound =>
        /\ \A i \in NeIndexes : neEntry.outs[i] \notin {"none", "damaged"}
        /\ ~neOverlap => neEntry.outs = neHeld[neEntry.text]

(* Nothing damaged reaches the workspace, whoever dies or races; and a hit
   with no other process at work leaves all the outputs of one entry, with its
   text, whatever half-replaced outputs a process that died had left. *)
NeHitIsTheEntry ==
    /\ \A i \in NeIndexes : neOut[i] # "damaged"
    /\ ~neOverlap => \A p \in NeProcs :
          /\ neAt[p] = "read" =>
                neOut = neHeld[p] /\ neEntry.sound /\ neHeld[p] = neEntry.outs
          /\ neAt[p] = "hit" => neText[p] \in NeProcs

NeSafety == NeEntryIsWhole /\ NeHitIsTheEntry
================================================================================

--------------------------- MODULE LocalCacheProofs ---------------------------
(***************************************************************************)
(* The local cache entry for any number of processes.  First what holds    *)
(* whatever they do and whenever they are killed: the types, and that a    *)
(* process which is not killed leaves no lock behind.  Then what holds     *)
(* while nothing is pruned: an entry is installed whole.  Then what holds  *)
(* while nothing is imported either and no lock ages: the lock excludes, a *)
(* complete entry stays, and a hit is one whole stored run.  Last the      *)
(* entries of named tasks, which have no lock, and the prunes.             *)
(***************************************************************************)
EXTENDS LocalCache, CacheEntries, SequenceTheorems, FiniteSetTheorems, TLAPS

(* The attempts are counted to the limit, and the process that breaks a lock
   counts one more. *)
Counted == \A p \in Writers : pc[p] \notin Ended => attempt[p] <= Attempts
Types == TypeOK /\ Counted

LEMMA TypesStay ==
    ASSUME Types, [Next]_vars
    PROVE  Types'
<1>1. ASSUME NEW p \in Writers, StoreBegins(p) PROVE Types'
    <2>1. temp' \subseteq temp /\ lock' \in {lock, NoProc} /\ aged' \in {aged, FALSE}
        BY <1>1 DEF StoreBegins, CleansUp, Unlock
    <2>2. pc' = [pc EXCEPT ![p] = "stored"] \/ pc' = [pc EXCEPT ![p] = "acquire"]
              \/ pc' = [pc EXCEPT ![p] = "failed"]
        BY <1>1 DEF StoreBegins, Goto
    <2>3. pc[p] \notin Ended
        BY <1>1 DEF StoreBegins, Ended
    <2> QED BY <1>1, <2>1, <2>2, <2>3 DEF StoreBegins, Types, TypeOK, Counted, Critical,
        Ended, Writers,
        Procs
<1>2. ASSUME NEW p \in Writers, ImportMisses(p) PROVE Types'
    BY <1>2, LocalCacheAssumption
        DEF ImportMisses, Types, TypeOK, Counted, Critical, Ended, Goto,
        LocalCacheAssumption, Procs, Writers, Makers
<1>3. ASSUME NEW p \in Writers, ImportBegins(p) PROVE Types'
    BY <1>3, LocalCacheAssumption
        DEF ImportBegins, Types, TypeOK, Counted, Critical, Ended, Goto,
        LocalCacheAssumption, Procs, Writers, Makers
<1>4. ASSUME NEW p \in Writers, Acquire(p) PROVE Types'
    BY <1>4, LocalCacheAssumption
        DEF Acquire, LockIsFree, Types, TypeOK, Counted, Critical, Ended, Goto,
        LocalCacheAssumption, Procs, Writers, Makers
<1>5. ASSUME NEW p \in Writers, AcquireFindsEntry(p) PROVE Types'
    BY <1>5, LocalCacheAssumption
        DEF AcquireFindsEntry, Types, TypeOK, Counted, Critical, Ended, Goto,
        LocalCacheAssumption, Procs, Writers, Makers
<1>6. ASSUME NEW p \in Writers, AcquireWaits(p) PROVE Types'
    BY <1>6, LocalCacheAssumption
        DEF AcquireWaits, Types, TypeOK, Counted, Critical, Ended, Goto,
        LocalCacheAssumption, Procs, Writers, Makers
<1>7. ASSUME NEW p \in Writers, AcquireTimesOut(p) PROVE Types'
    BY <1>7, LocalCacheAssumption
        DEF AcquireTimesOut, GivesUp, Types, TypeOK, Counted, Critical, Ended, Goto,
        LocalCacheAssumption, Procs, Writers, Makers
<1>8. ASSUME NEW p \in Writers, AcquireFindsStale(p) PROVE Types'
    BY <1>8, LocalCacheAssumption
        DEF AcquireFindsStale, Types, TypeOK, Counted, Critical, Ended, Goto,
        LocalCacheAssumption, Procs, Writers, Makers
<1>9. ASSUME NEW p \in Writers, BreakLock(p) PROVE Types'
    <2>0. attempt[p] <= Attempts /\ attempt \in [Writers -> 0 .. Attempts + 1]
        BY <1>9 DEF BreakLock, Types, TypeOK, Counted, Ended
    <2>1. attempt[p] \in 0 .. Attempts /\ Attempts \in Nat
        BY <2>0, LocalCacheAssumption DEF LocalCacheAssumption
    <2>2. attempt' = [attempt EXCEPT ![p] = attempt[p] + 1]
        BY <1>9 DEF BreakLock
    <2>3. attempt' \in [Writers -> 0 .. Attempts + 1]
        BY <2>0, <2>1, <2>2
    <2>4. pc' = [pc EXCEPT ![p] = IF attempt[p] < Attempts THEN "acquire" ELSE "failed"]
        BY <1>9 DEF BreakLock, Goto
    <2>5. Counted'
        BY <2>0, <2>1, <2>2, <2>4 DEF Types, TypeOK, Counted, Ended, Procs, Writers
    <2> QED BY <1>9, <2>3, <2>4, <2>5 DEF BreakLock, Unlock, Types, TypeOK, Ended
<1>10. ASSUME NEW p \in Writers, FindEntry(p) PROVE Types'
    BY <1>10, LocalCacheAssumption
        DEF FindEntry, AlreadyStored, Unlock, Types, TypeOK, Counted, Critical, Ended, Goto,
        LocalCacheAssumption, Procs, Writers, Makers
<1>11. ASSUME NEW p \in Writers, ReplaceEntry(p) PROVE Types'
    <2>1. target' = target \/ target' = [target EXCEPT ![p] = [of |-> at, path |-> "entry"]]
        BY <1>11 DEF ReplaceEntry
    <2> DEFINE entry == [of |-> at, path |-> "entry"]
    <2>2. entry \in [of : Makers \cup {NoProc}, path : {"entry", "temp"}]
        BY DEF Types, TypeOK
    <2>3. target' = target \/ target' = [target EXCEPT ![p] = entry]
        BY <2>1
    <2> HIDE DEF entry
    <2>4. target' \in [Procs -> [of : Makers \cup {NoProc}, path : {"entry", "temp"}]]
        BY <2>2, <2>3 DEF Types, TypeOK
    <2>5. pc' = [pc EXCEPT ![p] = "create"] \/ pc' = [pc EXCEPT ![p] = "install"]
              \/ pc' = [pc EXCEPT ![p] = "remove"]
        BY <1>11 DEF ReplaceEntry, AfterRemoval, Goto
    <2> QED BY <1>11, <2>4, <2>5 DEF ReplaceEntry, Types, TypeOK, Counted, Critical, Ended,
        Writers, Procs
<1>12. ASSUME NEW p \in Writers, CreateTemp(p) PROVE Types'
    BY <1>12, LocalCacheAssumption
        DEF CreateTemp, Types, TypeOK, Counted, Critical, Ended, Goto, LocalCacheAssumption,
        Procs, Writers, Makers
<1>13. ASSUME NEW p \in Writers, WriteTemp(p) PROVE Types'
    BY <1>13, LocalCacheAssumption
        DEF WriteTemp, Types, TypeOK, Counted, Critical, Ended, Goto, LocalCacheAssumption,
        Procs, Writers, Makers
<1>14. ASSUME NEW p \in Writers, WriteFails(p) PROVE Types'
    BY <1>14, LocalCacheAssumption
        DEF WriteFails, Unlock, Types, TypeOK, Counted, Critical, Ended, Goto,
        LocalCacheAssumption, Procs, Writers, Makers
<1>15. ASSUME NEW p \in Writers, Install(p) PROVE Types'
    BY <1>15, LocalCacheAssumption
        DEF Install, AlreadyStored, CanInstall, Unlock, Types, TypeOK, Counted, Critical,
        Ended, Goto, LocalCacheAssumption, Procs, Writers, Makers
<1>16. ASSUME NEW p \in Writers, InstallFindsEntry(p) PROVE Types'
    BY <1>16, LocalCacheAssumption
        DEF InstallFindsEntry, AlreadyStored, Unlock, Types, TypeOK, Counted, Critical,
        Ended, Goto, LocalCacheAssumption, Procs, Writers, Makers
<1>17. ASSUME NEW p \in Writers, InstallFails(p) PROVE Types'
    BY <1>17, LocalCacheAssumption
        DEF InstallFails, AlreadyStored, CanInstall, Unlock, Types, TypeOK, Counted,
        Critical, Ended, Goto, LocalCacheAssumption, Procs, Writers, Makers
<1>18. ASSUME NEW p \in Pruners, Prune(p) PROVE Types'
    <2>1. temp' \subseteq temp /\ lock' \in {lock, NoProc} /\ aged' \in {aged, FALSE}
        BY <1>18 DEF Prune, CleansUp, Unlock
    <2>2. pc' \in [Procs -> Ended \cup Critical \cup {"idle", "import", "acquire", "break", "read"}]
        BY <1>18 DEF Prune, Goto, Types, TypeOK, Critical, Ended
    <2>3. \/ target' = target
          \/ \E t \in [of : Makers, path : {"entry", "temp"}] : target' = [target EXCEPT ![p] = t]
        BY <1>18 DEF Prune
    <2>4. target' \in [Procs -> [of : Makers \cup {NoProc}, path : {"entry", "temp"}]]
        BY <2>3 DEF Types, TypeOK
    <2>5. pc' = [pc EXCEPT ![p] = "remove"] \/ pc' = [pc EXCEPT ![p] = "pruned"]
        BY <1>18 DEF Prune, Goto
    <2>6. \A q \in Writers : pc'[q] = pc[q]
        BY <2>5, LocalCacheAssumption DEF Types, TypeOK, LocalCacheAssumption, Procs, Writers
    <2> QED BY <1>18, <2>1, <2>2, <2>4, <2>6 DEF Prune, Types, TypeOK, Counted
<1>19. ASSUME NEW p \in Writers \cup Pruners, RemoveFile(p) PROVE Types'
    <2>1. PICK f : dir' = [dir EXCEPT ![target[p].of] = @ \ {f}]
        BY <1>19 DEF RemoveFile
    <2>2. dir' \in [Makers -> SUBSET Files]
        BY <2>1 DEF Types, TypeOK
    <2> QED BY <1>19, <2>2 DEF RemoveFile, Types, TypeOK, Counted
<1>20. ASSUME NEW p \in Writers \cup Pruners, RemoveEnds(p) PROVE Types'
    <2> DEFINE Targets == [of : Makers \cup {NoProc}, path : {"entry", "temp"}]
    <2>1. NoTarget \in Targets
        BY DEF NoTarget
    <2>2. target' = [target EXCEPT ![p] = NoTarget] /\ target \in [Procs -> Targets]
        BY <1>20 DEF RemoveEnds, Types, TypeOK
    <2> HIDE DEF Targets
    <2>3. target' \in [Procs -> Targets]
        BY <2>1, <2>2
    <2>4. at' \in {at, NoProc} /\ temp' \subseteq temp
        BY <1>20 DEF RemoveEnds, StillThere
    <2>5. pc' = [pc EXCEPT ![p] = "pruned"] \/ pc' = [pc EXCEPT ![p] = "create"]
              \/ pc' = [pc EXCEPT ![p] = "install"]
        BY <1>20 DEF RemoveEnds, AfterRemoval, Goto
    <2> QED BY <1>20, <2>3, <2>4, <2>5 DEF RemoveEnds, Types, TypeOK, Counted, Critical,
        Ended, Writers,
        Procs, Targets
<1>21. ASSUME NEW p \in Writers \cup Pruners, RemoveFails(p) PROVE Types'
    <2> DEFINE Targets == [of : Makers \cup {NoProc}, path : {"entry", "temp"}]
    <2>1. NoTarget \in Targets
        BY DEF NoTarget
    <2>2. target' = [target EXCEPT ![p] = NoTarget] /\ target \in [Procs -> Targets]
        BY <1>21 DEF RemoveFails, Types, TypeOK
    <2> HIDE DEF Targets
    <2>3. target' \in [Procs -> Targets]
        BY <2>1, <2>2
    <2>4. lock' \in {lock, NoProc} /\ aged' \in {aged, FALSE}
        BY <1>21 DEF RemoveFails, Unlock
    <2> QED BY <1>21, <2>3, <2>4 DEF RemoveFails, Goto, Types, TypeOK, Counted, Critical,
        Ended, Writers,
        Procs, Targets
<1>22. ASSUME NEW p \in Restorers, Lookup(p) PROVE Types'
    BY <1>22, LocalCacheAssumption
        DEF Lookup, LookupHits, Types, TypeOK, Counted, Critical, Ended, Goto,
        LocalCacheAssumption, Procs, Writers, Makers
<1>23. ASSUME NEW p \in Restorers, ReadFile(p) PROVE Types'
    <2>1. got' \in [Restorers -> Seq(Makers \cup {NoProc})]
        <3> DEFINE who == IF Found(NextRead(p)) THEN at ELSE NoProc
        <3>1. who \in Makers \cup {NoProc}
            BY DEF Types, TypeOK
        <3>2. got' = [got EXCEPT ![p] = Append(@, who)]
            BY <1>23 DEF ReadFile
        <3> HIDE DEF who
        <3>3. Append(got[p], who) \in Seq(Makers \cup {NoProc})
            BY <3>1, AppendProperties DEF Types, TypeOK
        <3> QED BY <3>2, <3>3 DEF Types, TypeOK
    <2> QED BY <1>23, <2>1, LocalCacheAssumption
        DEF ReadFile, Goto, Types, TypeOK, Counted, Critical, Ended, LocalCacheAssumption, Procs
<1>24. ASSUME NEW p \in Restorers, ReadFails(p) PROVE Types'
    BY <1>24, LocalCacheAssumption
        DEF ReadFails, Found, Types, TypeOK, Counted, Critical, Ended, Goto,
        LocalCacheAssumption, Procs, Writers, Makers
<1>25. ASSUME NEW p \in Procs, Kill(p) PROVE Types'
    BY <1>25, LocalCacheAssumption
        DEF Kill, Types, TypeOK, Counted, Critical, Ended, Goto, LocalCacheAssumption,
        Procs, Writers, Makers
<1>26. ASSUME LockAges PROVE Types'
    BY <1>26, LocalCacheAssumption
        DEF LockAges, Types, TypeOK, Counted, Critical, Ended, Goto, LocalCacheAssumption,
        Procs, Writers, Makers
<1>27. ASSUME UNCHANGED vars PROVE Types'
    BY <1>27, LocalCacheAssumption
        DEF vars, Types, TypeOK, Counted, Critical, Ended, Goto, LocalCacheAssumption,
        Procs, Writers, Makers
<1> QED BY <1>1, <1>2, <1>3, <1>4, <1>5, <1>6, <1>7, <1>8, <1>9, <1>10, <1>11, <1>12, <1>13,
    <1>14, <1>15, <1>16, <1>17, <1>18, <1>19, <1>20, <1>21, <1>22, <1>23, <1>24, <1>25,
    <1>26, <1>27
    DEF Next, Write, Remove, Restore

LEMMA TypesBegin ==
    ASSUME Init
    PROVE  Types
<1>1. Writers \subseteq Procs /\ Restorers \subseteq Procs
    BY DEF Procs, Writers
<1>2. dir \in [Makers -> SUBSET Files] /\ got \in [Restorers -> Seq(Makers \cup {NoProc})]
    BY DEF Init
<1>3. pc \in [Procs -> {"idle"}] /\ target \in [Procs -> {NoTarget}]
    BY DEF Init
<1>4. NoTarget \in [of : Makers \cup {NoProc}, path : {"entry", "temp"}]
    BY DEF NoTarget
<1>5. target \in [Procs -> [of : Makers \cup {NoProc}, path : {"entry", "temp"}]]
    BY <1>3, <1>4
<1>6. attempt \in [Writers -> 0 .. Attempts + 1] /\ Counted
    BY LocalCacheAssumption DEF Init, LocalCacheAssumption, Counted
<1>7. /\ pc \in [Procs -> Ended \cup Critical \cup {"idle", "import", "acquire", "break", "read"}]
      /\ at \in Makers \cup {NoProc}
      /\ temp \subseteq Writers /\ lock \in Writers \cup {NoProc} /\ aged \in BOOLEAN
    BY <1>3 DEF Init, Makers
<1> QED BY <1>2, <1>5, <1>6, <1>7 DEF Types, TypeOK

LEMMA ReleasedStays ==
    ASSUME Types, LocksAreReleased, [Next]_vars
    PROVE  LocksAreReleased'
<1>1. ASSUME NEW p \in Writers, StoreBegins(p) PROVE LocksAreReleased'
    BY <1>1, LocalCacheAssumption
        DEF StoreBegins, CleansUp, Unlock, Types, TypeOK, LocksAreReleased, InCritical,
        Critical, Ended, Goto, LocalCacheAssumption, Procs, Writers
<1>2. ASSUME NEW p \in Writers, ImportMisses(p) PROVE LocksAreReleased'
    BY <1>2, LocalCacheAssumption
        DEF ImportMisses, Types, TypeOK, LocksAreReleased, InCritical, Critical, Ended,
        Goto, LocalCacheAssumption, Procs, Writers
<1>3. ASSUME NEW p \in Writers, ImportBegins(p) PROVE LocksAreReleased'
    BY <1>3, LocalCacheAssumption
        DEF ImportBegins, Types, TypeOK, LocksAreReleased, InCritical, Critical, Ended,
        Goto, LocalCacheAssumption, Procs, Writers
<1>4. ASSUME NEW p \in Writers, Acquire(p) PROVE LocksAreReleased'
    BY <1>4, LocalCacheAssumption
        DEF Acquire, LockIsFree, Types, TypeOK, LocksAreReleased, InCritical, Critical,
        Ended, Goto, LocalCacheAssumption, Procs, Writers
<1>5. ASSUME NEW p \in Writers, AcquireFindsEntry(p) PROVE LocksAreReleased'
    BY <1>5, LocalCacheAssumption
        DEF AcquireFindsEntry, Types, TypeOK, LocksAreReleased, InCritical, Critical, Ended,
        Goto, LocalCacheAssumption, Procs, Writers
<1>6. ASSUME NEW p \in Writers, AcquireWaits(p) PROVE LocksAreReleased'
    BY <1>6, LocalCacheAssumption
        DEF AcquireWaits, Types, TypeOK, LocksAreReleased, InCritical, Critical, Ended,
        Goto, LocalCacheAssumption, Procs, Writers
<1>7. ASSUME NEW p \in Writers, AcquireTimesOut(p) PROVE LocksAreReleased'
    BY <1>7, LocalCacheAssumption
        DEF AcquireTimesOut, GivesUp, Types, TypeOK, LocksAreReleased, InCritical, Critical,
        Ended, Goto, LocalCacheAssumption, Procs, Writers
<1>8. ASSUME NEW p \in Writers, AcquireFindsStale(p) PROVE LocksAreReleased'
    BY <1>8, LocalCacheAssumption
        DEF AcquireFindsStale, Types, TypeOK, LocksAreReleased, InCritical, Critical, Ended,
        Goto, LocalCacheAssumption, Procs, Writers
<1>9. ASSUME NEW p \in Writers, BreakLock(p) PROVE LocksAreReleased'
    BY <1>9, LocalCacheAssumption
        DEF BreakLock, Unlock, Types, TypeOK, LocksAreReleased, InCritical, Critical, Ended,
        Goto, LocalCacheAssumption, Procs, Writers
<1>10. ASSUME NEW p \in Writers, FindEntry(p) PROVE LocksAreReleased'
    BY <1>10, LocalCacheAssumption
        DEF FindEntry, AlreadyStored, Unlock, Types, TypeOK, LocksAreReleased, InCritical,
        Critical, Ended, Goto, LocalCacheAssumption, Procs, Writers
<1>11. ASSUME NEW p \in Writers, ReplaceEntry(p) PROVE LocksAreReleased'
    BY <1>11, LocalCacheAssumption
        DEF ReplaceEntry, AlreadyStored, AfterRemoval, Types, TypeOK, LocksAreReleased,
        InCritical, Critical, Ended, Goto, LocalCacheAssumption, Procs, Writers
<1>12. ASSUME NEW p \in Writers, CreateTemp(p) PROVE LocksAreReleased'
    BY <1>12, LocalCacheAssumption
        DEF CreateTemp, Types, TypeOK, LocksAreReleased, InCritical, Critical, Ended, Goto,
        LocalCacheAssumption, Procs, Writers
<1>13. ASSUME NEW p \in Writers, WriteTemp(p) PROVE LocksAreReleased'
    BY <1>13, LocalCacheAssumption
        DEF WriteTemp, Types, TypeOK, LocksAreReleased, InCritical, Critical, Ended, Goto,
        LocalCacheAssumption, Procs, Writers
<1>14. ASSUME NEW p \in Writers, WriteFails(p) PROVE LocksAreReleased'
    BY <1>14, LocalCacheAssumption
        DEF WriteFails, Unlock, Types, TypeOK, LocksAreReleased, InCritical, Critical,
        Ended, Goto, LocalCacheAssumption, Procs, Writers
<1>15. ASSUME NEW p \in Writers, Install(p) PROVE LocksAreReleased'
    BY <1>15, LocalCacheAssumption
        DEF Install, AlreadyStored, CanInstall, Unlock, Types, TypeOK, LocksAreReleased,
        InCritical, Critical, Ended, Goto, LocalCacheAssumption, Procs, Writers
<1>16. ASSUME NEW p \in Writers, InstallFindsEntry(p) PROVE LocksAreReleased'
    BY <1>16, LocalCacheAssumption
        DEF InstallFindsEntry, AlreadyStored, Unlock, Types, TypeOK, LocksAreReleased,
        InCritical, Critical, Ended, Goto, LocalCacheAssumption, Procs, Writers
<1>17. ASSUME NEW p \in Writers, InstallFails(p) PROVE LocksAreReleased'
    BY <1>17, LocalCacheAssumption
        DEF InstallFails, AlreadyStored, CanInstall, Unlock, Types, TypeOK,
        LocksAreReleased, InCritical, Critical, Ended, Goto, LocalCacheAssumption, Procs,
        Writers
<1>18. ASSUME NEW p \in Pruners, Prune(p) PROVE LocksAreReleased'
    BY <1>18, LocalCacheAssumption
        DEF Prune, CleansUp, StillThere, Unlock, Types, TypeOK, LocksAreReleased,
        InCritical, Critical, Ended, Goto, LocalCacheAssumption, Procs, Writers
<1>19. ASSUME NEW p \in Writers \cup Pruners, RemoveFile(p) PROVE LocksAreReleased'
    BY <1>19, LocalCacheAssumption
        DEF RemoveFile, Types, TypeOK, LocksAreReleased, InCritical, Critical, Ended, Goto,
        LocalCacheAssumption, Procs, Writers
<1>20. ASSUME NEW p \in Writers \cup Pruners, RemoveEnds(p) PROVE LocksAreReleased'
    BY <1>20, LocalCacheAssumption
        DEF RemoveEnds, StillThere, AfterRemoval, Types, TypeOK, LocksAreReleased,
        InCritical, Critical, Ended, Goto, LocalCacheAssumption, Procs, Writers
<1>21. ASSUME NEW p \in Writers \cup Pruners, RemoveFails(p) PROVE LocksAreReleased'
    BY <1>21, LocalCacheAssumption
        DEF RemoveFails, Unlock, Types, TypeOK, LocksAreReleased, InCritical, Critical,
        Ended, Goto, LocalCacheAssumption, Procs, Writers
<1>22. ASSUME NEW p \in Restorers, Lookup(p) PROVE LocksAreReleased'
    BY <1>22, LocalCacheAssumption
        DEF Lookup, LookupHits, Types, TypeOK, LocksAreReleased, InCritical, Critical,
        Ended, Goto, LocalCacheAssumption, Procs, Writers
<1>23. ASSUME NEW p \in Restorers, ReadFile(p) PROVE LocksAreReleased'
    BY <1>23, LocalCacheAssumption
        DEF ReadFile, Found, Types, TypeOK, LocksAreReleased, InCritical, Critical, Ended,
        Goto, LocalCacheAssumption, Procs, Writers
<1>24. ASSUME NEW p \in Restorers, ReadFails(p) PROVE LocksAreReleased'
    BY <1>24, LocalCacheAssumption
        DEF ReadFails, Found, Types, TypeOK, LocksAreReleased, InCritical, Critical, Ended,
        Goto, LocalCacheAssumption, Procs, Writers
<1>25. ASSUME NEW p \in Procs, Kill(p) PROVE LocksAreReleased'
    BY <1>25, LocalCacheAssumption
        DEF Kill, Types, TypeOK, LocksAreReleased, InCritical, Critical, Ended, Goto,
        LocalCacheAssumption, Procs, Writers
<1>26. ASSUME LockAges PROVE LocksAreReleased'
    BY <1>26, LocalCacheAssumption
        DEF LockAges, Types, TypeOK, LocksAreReleased, InCritical, Critical, Ended, Goto,
        LocalCacheAssumption, Procs, Writers
<1>27. ASSUME UNCHANGED vars PROVE LocksAreReleased'
    BY <1>27, LocalCacheAssumption
        DEF vars, Types, TypeOK, LocksAreReleased, InCritical, Critical, Ended, Goto,
        LocalCacheAssumption, Procs, Writers
<1> QED BY <1>1, <1>2, <1>3, <1>4, <1>5, <1>6, <1>7, <1>8, <1>9, <1>10, <1>11, <1>12, <1>13,
    <1>14, <1>15, <1>16, <1>17, <1>18, <1>19, <1>20, <1>21, <1>22, <1>23, <1>24, <1>25,
    <1>26, <1>27
    DEF Next, Write, Remove, Restore

(* Types, whoever runs and whoever is killed. *)
THEOREM TypesAreRight == Spec => []TypeOK
<1>1. Init => Types
    BY TypesBegin
<1>2. Types /\ [Next]_vars => Types'
    BY TypesStay
<1>3. Types => TypeOK
    BY DEF Types
<1> QED BY <1>1, <1>2, <1>3, PTL DEF Spec

(* The lock of a process is gone when the process has ended on its own, on every
   path through acquire_cache_entry_lock, the store and the import, even when
   others break locks. *)
THEOREM LocksGoWithTheirOwners == Spec => []LocksAreReleased
<1>1. Init => Types /\ LocksAreReleased
    <2> SUFFICES ASSUME Init PROVE LocksAreReleased
        BY TypesBegin
    <2> QED BY LocalCacheAssumption
        DEF Init, LocksAreReleased, LocalCacheAssumption, Procs, Writers
<1>2. Types /\ LocksAreReleased /\ [Next]_vars => (Types /\ LocksAreReleased)'
    BY TypesStay, ReleasedStays
<1> QED BY <1>1, <1>2, PTL DEF Spec

--------------------------------------------------------------------------------
(* Without pruning, although imports replace entries and locks are broken: a
   directory is whole when it waits to be installed, and nobody removes files from
   one that is not installed yet. *)
Unpacked(p) ==
    \/ pc[p] = "install"
    \/ p \in Importers /\ pc[p] \in {"acquire", "break", "locked", "remove"}

WholeUntilInstalled ==
    \A p \in Writers :
        /\ pc[p] \notin Ended => at # p /\ \A q \in Procs : target[q].of # p
        /\ Unpacked(p) => dir[p] = Files

LEMMA WholeStays ==
    ASSUME Pruners = {}, Types, WholeUntilInstalled, [Next]_vars
    PROVE  WholeUntilInstalled'
<1>1. ASSUME NEW p \in Writers, StoreBegins(p) PROVE WholeUntilInstalled'
    BY <1>1, LocalCacheAssumption
        DEF StoreBegins, CleansUp, Unlock, Types, TypeOK, WholeUntilInstalled, Unpacked,
        Critical, Ended, NoTarget, Goto, LocalCacheAssumption, Procs, Writers, Makers
<1>2. ASSUME NEW p \in Writers, ImportMisses(p) PROVE WholeUntilInstalled'
    BY <1>2, LocalCacheAssumption
        DEF ImportMisses, Types, TypeOK, WholeUntilInstalled, Unpacked, Critical, Ended,
        NoTarget, Goto, LocalCacheAssumption, Procs, Writers, Makers
<1>3. ASSUME NEW p \in Writers, ImportBegins(p) PROVE WholeUntilInstalled'
    BY <1>3, LocalCacheAssumption
        DEF ImportBegins, Types, TypeOK, WholeUntilInstalled, Unpacked, Critical, Ended,
        NoTarget, Goto, LocalCacheAssumption, Procs, Writers, Makers
<1>4. ASSUME NEW p \in Writers, Acquire(p) PROVE WholeUntilInstalled'
    BY <1>4, LocalCacheAssumption
        DEF Acquire, LockIsFree, Types, TypeOK, WholeUntilInstalled, Unpacked, Critical,
        Ended, NoTarget, Goto, LocalCacheAssumption, Procs, Writers, Makers
<1>5. ASSUME NEW p \in Writers, AcquireFindsEntry(p) PROVE WholeUntilInstalled'
    BY <1>5, LocalCacheAssumption
        DEF AcquireFindsEntry, Types, TypeOK, WholeUntilInstalled, Unpacked, Critical,
        Ended, NoTarget, Goto, LocalCacheAssumption, Procs, Writers, Makers
<1>6. ASSUME NEW p \in Writers, AcquireWaits(p) PROVE WholeUntilInstalled'
    BY <1>6, LocalCacheAssumption
        DEF AcquireWaits, Types, TypeOK, WholeUntilInstalled, Unpacked, Critical, Ended,
        NoTarget, Goto, LocalCacheAssumption, Procs, Writers, Makers
<1>7. ASSUME NEW p \in Writers, AcquireTimesOut(p) PROVE WholeUntilInstalled'
    BY <1>7, LocalCacheAssumption
        DEF AcquireTimesOut, GivesUp, Types, TypeOK, WholeUntilInstalled, Unpacked,
        Critical, Ended, NoTarget, Goto, LocalCacheAssumption, Procs, Writers, Makers
<1>8. ASSUME NEW p \in Writers, AcquireFindsStale(p) PROVE WholeUntilInstalled'
    BY <1>8, LocalCacheAssumption
        DEF AcquireFindsStale, Types, TypeOK, WholeUntilInstalled, Unpacked, Critical,
        Ended, NoTarget, Goto, LocalCacheAssumption, Procs, Writers, Makers
<1>9. ASSUME NEW p \in Writers, BreakLock(p) PROVE WholeUntilInstalled'
    BY <1>9, LocalCacheAssumption
        DEF BreakLock, Unlock, Types, TypeOK, WholeUntilInstalled, Unpacked, Critical,
        Ended, NoTarget, Goto, LocalCacheAssumption, Procs, Writers, Makers
<1>10. ASSUME NEW p \in Writers, FindEntry(p) PROVE WholeUntilInstalled'
    BY <1>10, LocalCacheAssumption
        DEF FindEntry, AlreadyStored, Unlock, Types, TypeOK, WholeUntilInstalled, Unpacked,
        Critical, Ended, NoTarget, Goto, LocalCacheAssumption, Procs, Writers, Makers
<1>11. ASSUME NEW p \in Writers, ReplaceEntry(p) PROVE WholeUntilInstalled'
    <2>1. pc' = [pc EXCEPT ![p] = "create"] \/ pc' = [pc EXCEPT ![p] = "install"]
              \/ pc' = [pc EXCEPT ![p] = "remove"]
        BY <1>11 DEF ReplaceEntry, AfterRemoval, Goto
    <2>2. pc'[p] = "install" => p \in Importers
        BY <1>11 DEF ReplaceEntry, AfterRemoval, Goto, Types, TypeOK, Procs, Writers
    <2>3. \A q \in Procs : target'[q].of = target[q].of \/ target'[q].of = at
        BY <1>11 DEF ReplaceEntry, Types, TypeOK
    <2>4. pc[p] = "locked" /\ at' = at /\ dir' = dir
        BY <1>11 DEF ReplaceEntry
    <2>5. \A q \in Writers : pc'[q] \notin Ended => pc[q] \notin Ended
        BY <2>1, <2>4 DEF Types, TypeOK, Ended, Procs, Writers
    <2>6. \A q \in Writers : Unpacked(q)' => Unpacked(q)
        BY <2>1, <2>2, <2>4 DEF Unpacked, Types, TypeOK, Procs, Writers
    <2> QED BY <2>3, <2>4, <2>5, <2>6 DEF WholeUntilInstalled
<1>12. ASSUME NEW p \in Writers, CreateTemp(p) PROVE WholeUntilInstalled'
    BY <1>12, LocalCacheAssumption
        DEF CreateTemp, Types, TypeOK, WholeUntilInstalled, Unpacked, Critical, Ended,
        NoTarget, Goto, LocalCacheAssumption, Procs, Writers, Makers
<1>13. ASSUME NEW p \in Writers, WriteTemp(p) PROVE WholeUntilInstalled'
    BY <1>13, LocalCacheAssumption
        DEF WriteTemp, Types, TypeOK, WholeUntilInstalled, Unpacked, Critical, Ended,
        NoTarget, Goto, LocalCacheAssumption, Procs, Writers, Makers
<1>14. ASSUME NEW p \in Writers, WriteFails(p) PROVE WholeUntilInstalled'
    BY <1>14, LocalCacheAssumption
        DEF WriteFails, Unlock, Types, TypeOK, WholeUntilInstalled, Unpacked, Critical,
        Ended, NoTarget, Goto, LocalCacheAssumption, Procs, Writers, Makers
<1>15. ASSUME NEW p \in Writers, Install(p) PROVE WholeUntilInstalled'
    BY <1>15, LocalCacheAssumption
        DEF Install, AlreadyStored, CanInstall, Unlock, Types, TypeOK, WholeUntilInstalled,
        Unpacked, Critical, Ended, NoTarget, Goto, LocalCacheAssumption, Procs, Writers,
        Makers
<1>16. ASSUME NEW p \in Writers, InstallFindsEntry(p) PROVE WholeUntilInstalled'
    BY <1>16, LocalCacheAssumption
        DEF InstallFindsEntry, AlreadyStored, Unlock, Types, TypeOK, WholeUntilInstalled,
        Unpacked, Critical, Ended, NoTarget, Goto, LocalCacheAssumption, Procs, Writers,
        Makers
<1>17. ASSUME NEW p \in Writers, InstallFails(p) PROVE WholeUntilInstalled'
    BY <1>17, LocalCacheAssumption
        DEF InstallFails, AlreadyStored, CanInstall, Unlock, Types, TypeOK,
        WholeUntilInstalled, Unpacked, Critical, Ended, NoTarget, Goto,
        LocalCacheAssumption, Procs, Writers, Makers
<1>18. ASSUME NEW p \in Pruners, Prune(p) PROVE WholeUntilInstalled'
    BY <1>18, LocalCacheAssumption
        DEF Prune, CleansUp, StillThere, Unlock, Types, TypeOK, WholeUntilInstalled,
        Unpacked, Critical, Ended, NoTarget, Goto, LocalCacheAssumption, Procs, Writers,
        Makers
<1>19. ASSUME NEW p \in Writers \cup Pruners, RemoveFile(p) PROVE WholeUntilInstalled'
    BY <1>19, LocalCacheAssumption
        DEF RemoveFile, Types, TypeOK, WholeUntilInstalled, Unpacked, Critical, Ended,
        NoTarget, Goto, LocalCacheAssumption, Procs, Writers, Makers
<1>20. ASSUME NEW p \in Writers \cup Pruners, RemoveEnds(p) PROVE WholeUntilInstalled'
    BY <1>20, LocalCacheAssumption
        DEF RemoveEnds, StillThere, AfterRemoval, Types, TypeOK, WholeUntilInstalled,
        Unpacked, Critical, Ended, NoTarget, Goto, LocalCacheAssumption, Procs, Writers,
        Makers
<1>21. ASSUME NEW p \in Writers \cup Pruners, RemoveFails(p) PROVE WholeUntilInstalled'
    BY <1>21, LocalCacheAssumption
        DEF RemoveFails, Unlock, Types, TypeOK, WholeUntilInstalled, Unpacked, Critical,
        Ended, NoTarget, Goto, LocalCacheAssumption, Procs, Writers, Makers
<1>22. ASSUME NEW p \in Restorers, Lookup(p) PROVE WholeUntilInstalled'
    BY <1>22, LocalCacheAssumption
        DEF Lookup, LookupHits, Types, TypeOK, WholeUntilInstalled, Unpacked, Critical,
        Ended, NoTarget, Goto, LocalCacheAssumption, Procs, Writers, Makers
<1>23. ASSUME NEW p \in Restorers, ReadFile(p) PROVE WholeUntilInstalled'
    BY <1>23, LocalCacheAssumption
        DEF ReadFile, Found, Types, TypeOK, WholeUntilInstalled, Unpacked, Critical, Ended,
        NoTarget, Goto, LocalCacheAssumption, Procs, Writers, Makers
<1>24. ASSUME NEW p \in Restorers, ReadFails(p) PROVE WholeUntilInstalled'
    BY <1>24, LocalCacheAssumption
        DEF ReadFails, Found, Types, TypeOK, WholeUntilInstalled, Unpacked, Critical, Ended,
        NoTarget, Goto, LocalCacheAssumption, Procs, Writers, Makers
<1>25. ASSUME NEW p \in Procs, Kill(p) PROVE WholeUntilInstalled'
    BY <1>25, LocalCacheAssumption
        DEF Kill, Types, TypeOK, WholeUntilInstalled, Unpacked, Critical, Ended, NoTarget,
        Goto, LocalCacheAssumption, Procs, Writers, Makers
<1>26. ASSUME LockAges PROVE WholeUntilInstalled'
    BY <1>26, LocalCacheAssumption
        DEF LockAges, Types, TypeOK, WholeUntilInstalled, Unpacked, Critical, Ended,
        NoTarget, Goto, LocalCacheAssumption, Procs, Writers, Makers
<1>27. ASSUME UNCHANGED vars PROVE WholeUntilInstalled'
    BY <1>27, LocalCacheAssumption
        DEF vars, Types, TypeOK, WholeUntilInstalled, Unpacked, Critical, Ended, NoTarget,
        Goto, LocalCacheAssumption, Procs, Writers, Makers
<1> QED BY <1>1, <1>2, <1>3, <1>4, <1>5, <1>6, <1>7, <1>8, <1>9, <1>10, <1>11, <1>12, <1>13,
    <1>14, <1>15, <1>16, <1>17, <1>18, <1>19, <1>20, <1>21, <1>22, <1>23, <1>24, <1>25,
    <1>26, <1>27
    DEF Next, Write, Remove, Restore

(* A directory only takes the entry's place once every file of it is written,
   while nothing is pruned. *)
THEOREM EntriesAreInstalledWhole ==
    ASSUME Pruners = {}
    PROVE  Spec => InstalledWhole
<1>1. Init => Types /\ WholeUntilInstalled
    <2> SUFFICES ASSUME Init PROVE WholeUntilInstalled
        BY TypesBegin
    <2>1. ASSUME NEW p \in Writers PROVE at # p /\ \A q \in Procs : target[q].of # p
        BY LocalCacheAssumption DEF Init, NoTarget, LocalCacheAssumption, Procs, Writers
    <2>2. \A p \in Writers : ~Unpacked(p)
        BY DEF Init, Unpacked, Procs, Writers
    <2> QED BY <2>1, <2>2 DEF WholeUntilInstalled
<1>2. Types /\ WholeUntilInstalled /\ [Next]_vars => (Types /\ WholeUntilInstalled)'
    BY TypesStay, WholeStays
<1>3. Types /\ WholeUntilInstalled /\ [Next]_vars
          => [at' # at /\ at' # NoProc => dir[at'] = Files]_vars
    <2> SUFFICES ASSUME WholeUntilInstalled, Next, at' # at, at' # NoProc PROVE dir[at'] = Files
        OBVIOUS
    <2>1. PICK p \in Writers : Install(p)
        BY DEF Next, Write, Remove, Restore, Prune, StoreBegins, ImportMisses, ImportBegins,
            Acquire, AcquireFindsEntry, AcquireWaits, AcquireTimesOut, AcquireFindsStale,
            BreakLock, FindEntry, ReplaceEntry, CreateTemp, WriteTemp, WriteFails,
            InstallFindsEntry, InstallFails, RemoveFile, RemoveEnds, RemoveFails, Lookup,
            ReadFile, ReadFails, Kill, LockAges
    <2> QED BY <2>1 DEF Install, WholeUntilInstalled, Unpacked
<1> QED BY <1>1, <1>2, <1>3, PTL DEF Spec, InstalledWhole

--------------------------------------------------------------------------------
(* Stores and restores alone, while no lock ages. *)
StoresOnly == Importers = {} /\ Pruners = {} /\ LocksAge = FALSE

(* The inductive invariant: who is past the lock is its creator, and what it has
   found out about the entry's path stays true. *)
Calm == aged = FALSE /\ \A p \in Writers : pc[p] \notin {"import", "break"}

Exclusion == Calm /\ \A p \in Writers : InCritical(p) => lock = p

Holding ==
    \A p \in Writers :
        /\ pc[p] = "remove" =>
              /\ target[p] = [of |-> at, path |-> "entry"]
              /\ at # NoProc /\ dir[at] # Files
        /\ pc[p] \in {"create", "write", "install"} => at = NoProc
        /\ pc[p] = "install" => dir[p] = Files

Reading ==
    \A r \in Restorers :
        /\ pc[r] = "idle" => got[r] = <<>>
        /\ pc[r] = "read" => Complete /\ \A i \in 1 .. Len(got[r]) : got[r][i] = at
        /\ pc[r] = "hit" => \E p \in Makers : \A i \in 1 .. Len(got[r]) : got[r][i] = p

IInv == Types /\ Exclusion /\ Holding /\ Reading

(* With stores and restores only, these are the steps. *)
LEMMA StepsOfStores ==
    ASSUME StoresOnly, Calm, [Next]_vars
    PROVE  \/ \E p \in Writers : Write(p) \/ Remove(p)
           \/ \E p \in Restorers : Restore(p)
           \/ \E p \in Procs : Kill(p)
           \/ UNCHANGED vars
BY DEF StoresOnly, Next, LockAges, Writers

LEMMA ExclusionStays ==
    ASSUME StoresOnly, TypeOK, Exclusion, [Next]_vars
    PROVE  Exclusion'
<1>1. ASSUME NEW p \in Writers, StoreBegins(p) PROVE Exclusion'
    BY <1>1, LocalCacheAssumption
    DEF StoreBegins, CleansUp, Unlock, Exclusion, Calm, Goto, TypeOK, InCritical, Critical,
        Ended, StoresOnly, Procs, Writers
<1>2. ASSUME NEW p \in Writers, ImportMisses(p) PROVE Exclusion'
    BY <1>2, LocalCacheAssumption
    DEF ImportMisses, Exclusion, Calm, Goto, TypeOK, InCritical, Critical, Ended,
        StoresOnly, Procs, Writers
<1>3. ASSUME NEW p \in Writers, ImportBegins(p) PROVE Exclusion'
    BY <1>3, LocalCacheAssumption
    DEF ImportBegins, Exclusion, Calm, Goto, TypeOK, InCritical, Critical, Ended,
        StoresOnly, Procs, Writers
<1>4. ASSUME NEW p \in Writers, Acquire(p) PROVE Exclusion'
    BY <1>4, LocalCacheAssumption
    DEF Acquire, LockIsFree, Exclusion, Calm, Goto, TypeOK, InCritical, Critical, Ended,
        StoresOnly, Procs, Writers
<1>5. ASSUME NEW p \in Writers, AcquireFindsEntry(p) PROVE Exclusion'
    BY <1>5, LocalCacheAssumption
    DEF AcquireFindsEntry, Exclusion, Calm, Goto, TypeOK, InCritical, Critical, Ended,
        StoresOnly, Procs, Writers
<1>6. ASSUME NEW p \in Writers, AcquireWaits(p) PROVE Exclusion'
    BY <1>6, LocalCacheAssumption
    DEF AcquireWaits, Exclusion, Calm, Goto, TypeOK, InCritical, Critical, Ended,
        StoresOnly, Procs, Writers
<1>7. ASSUME NEW p \in Writers, AcquireTimesOut(p) PROVE Exclusion'
    BY <1>7, LocalCacheAssumption
    DEF AcquireTimesOut, GivesUp, Exclusion, Calm, Goto, TypeOK, InCritical, Critical,
        Ended, StoresOnly, Procs, Writers
<1>8. ASSUME NEW p \in Writers, AcquireFindsStale(p) PROVE Exclusion'
    BY <1>8, LocalCacheAssumption
    DEF AcquireFindsStale, Exclusion, Calm, Goto, TypeOK, InCritical, Critical, Ended,
        StoresOnly, Procs, Writers
<1>9. ASSUME NEW p \in Writers, BreakLock(p) PROVE Exclusion'
    BY <1>9, LocalCacheAssumption
    DEF BreakLock, Unlock, Exclusion, Calm, Goto, TypeOK, InCritical, Critical, Ended,
        StoresOnly, Procs, Writers
<1>10. ASSUME NEW p \in Writers, FindEntry(p) PROVE Exclusion'
    BY <1>10, LocalCacheAssumption
    DEF FindEntry, AlreadyStored, Unlock, Exclusion, Calm, Goto, TypeOK, InCritical,
        Critical, Ended, StoresOnly, Procs, Writers
<1>11. ASSUME NEW p \in Writers, ReplaceEntry(p) PROVE Exclusion'
    BY <1>11, LocalCacheAssumption
    DEF ReplaceEntry, AlreadyStored, AfterRemoval, Exclusion, Calm, Goto, TypeOK,
        InCritical, Critical, Ended, StoresOnly, Procs, Writers
<1>12. ASSUME NEW p \in Writers, CreateTemp(p) PROVE Exclusion'
    BY <1>12, LocalCacheAssumption
    DEF CreateTemp, Exclusion, Calm, Goto, TypeOK, InCritical, Critical, Ended, StoresOnly,
        Procs, Writers
<1>13. ASSUME NEW p \in Writers, WriteTemp(p) PROVE Exclusion'
    BY <1>13, LocalCacheAssumption
    DEF WriteTemp, Exclusion, Calm, Goto, TypeOK, InCritical, Critical, Ended, StoresOnly,
        Procs, Writers
<1>14. ASSUME NEW p \in Writers, WriteFails(p) PROVE Exclusion'
    BY <1>14, LocalCacheAssumption
    DEF WriteFails, Unlock, Exclusion, Calm, Goto, TypeOK, InCritical, Critical, Ended,
        StoresOnly, Procs, Writers
<1>15. ASSUME NEW p \in Writers, Install(p) PROVE Exclusion'
    BY <1>15, LocalCacheAssumption
    DEF Install, AlreadyStored, CanInstall, Unlock, Exclusion, Calm, Goto, TypeOK,
        InCritical, Critical, Ended, StoresOnly, Procs, Writers
<1>16. ASSUME NEW p \in Writers, InstallFindsEntry(p) PROVE Exclusion'
    BY <1>16, LocalCacheAssumption
    DEF InstallFindsEntry, AlreadyStored, Unlock, Exclusion, Calm, Goto, TypeOK, InCritical,
        Critical, Ended, StoresOnly, Procs, Writers
<1>17. ASSUME NEW p \in Writers, InstallFails(p) PROVE Exclusion'
    BY <1>17, LocalCacheAssumption
    DEF InstallFails, AlreadyStored, CanInstall, Unlock, Exclusion, Calm, Goto, TypeOK,
        InCritical, Critical, Ended, StoresOnly, Procs, Writers
<1>18. ASSUME NEW p \in Writers, RemoveFile(p) PROVE Exclusion'
    BY <1>18, LocalCacheAssumption
    DEF RemoveFile, Exclusion, Calm, Goto, TypeOK, InCritical, Critical, Ended, StoresOnly,
        Procs, Writers
<1>19. ASSUME NEW p \in Writers, RemoveEnds(p) PROVE Exclusion'
    BY <1>19, LocalCacheAssumption
    DEF RemoveEnds, StillThere, AfterRemoval, Exclusion, Calm, Goto, TypeOK, InCritical,
        Critical, Ended, StoresOnly, Procs, Writers
<1>20. ASSUME NEW p \in Writers, RemoveFails(p) PROVE Exclusion'
    BY <1>20, LocalCacheAssumption
    DEF RemoveFails, Unlock, Exclusion, Calm, Goto, TypeOK, InCritical, Critical, Ended,
        StoresOnly, Procs, Writers
<1>21. ASSUME NEW p \in Restorers, Lookup(p) PROVE Exclusion'
    BY <1>21, LocalCacheAssumption
    DEF Lookup, LookupHits, Exclusion, Calm, Goto, TypeOK, InCritical, Critical, Ended,
        StoresOnly, Procs, Writers
<1>22. ASSUME NEW p \in Restorers, ReadFile(p) PROVE Exclusion'
    BY <1>22, LocalCacheAssumption
    DEF ReadFile, Found, Exclusion, Calm, Goto, TypeOK, InCritical, Critical, Ended,
        StoresOnly, Procs, Writers
<1>23. ASSUME NEW p \in Restorers, ReadFails(p) PROVE Exclusion'
    BY <1>23, LocalCacheAssumption
    DEF ReadFails, Found, Exclusion, Calm, Goto, TypeOK, InCritical, Critical, Ended,
        StoresOnly, Procs, Writers
<1>24. ASSUME NEW p \in Procs, Kill(p) PROVE Exclusion'
    BY <1>24, LocalCacheAssumption
    DEF Kill, Exclusion, Calm, Goto, TypeOK, InCritical, Critical, Ended, StoresOnly, Procs,
        Writers
<1>25. ASSUME UNCHANGED vars PROVE Exclusion'
    BY <1>25, LocalCacheAssumption
    DEF vars, Exclusion, Calm, Goto, TypeOK, InCritical, Critical, Ended, StoresOnly, Procs,
        Writers
<1> QED BY <1>1, <1>2, <1>3, <1>4, <1>5, <1>6, <1>7, <1>8, <1>9, <1>10, <1>11, <1>12, <1>13,
    <1>14, <1>15, <1>16, <1>17, <1>18, <1>19, <1>20, <1>21, <1>22, <1>23, <1>24, <1>25,
    StepsOfStores
    DEF Write, Remove, Restore, Exclusion

LEMMA HoldingStays ==
    ASSUME StoresOnly, TypeOK, Exclusion, Holding, [Next]_vars
    PROVE  Holding'
<1>1. ASSUME NEW p \in Writers, StoreBegins(p) PROVE Holding'
    BY <1>1, LocalCacheAssumption
    DEF StoreBegins, CleansUp, Unlock, Exclusion, Holding, Content, Complete, Files, Goto,
        TypeOK, InCritical, Critical, Ended, StoresOnly, LocalCacheAssumption, Procs,
        Writers, Makers
<1>2. ASSUME NEW p \in Writers, ImportMisses(p) PROVE Holding'
    BY <1>2, LocalCacheAssumption
    DEF ImportMisses, Exclusion, Holding, Content, Complete, Files, Goto, TypeOK,
        InCritical, Critical, Ended, StoresOnly, LocalCacheAssumption, Procs, Writers,
        Makers
<1>3. ASSUME NEW p \in Writers, ImportBegins(p) PROVE Holding'
    BY <1>3 DEF ImportBegins, Exclusion, Calm
<1>4. ASSUME NEW p \in Writers, Acquire(p) PROVE Holding'
    BY <1>4, LocalCacheAssumption
    DEF Acquire, LockIsFree, Exclusion, Holding, Content, Complete, Files, Goto, TypeOK,
        InCritical, Critical, Ended, StoresOnly, LocalCacheAssumption, Procs, Writers,
        Makers
<1>5. ASSUME NEW p \in Writers, AcquireFindsEntry(p) PROVE Holding'
    BY <1>5, LocalCacheAssumption
    DEF AcquireFindsEntry, Exclusion, Holding, Content, Complete, Files, Goto, TypeOK,
        InCritical, Critical, Ended, StoresOnly, LocalCacheAssumption, Procs, Writers,
        Makers
<1>6. ASSUME NEW p \in Writers, AcquireWaits(p) PROVE Holding'
    BY <1>6, LocalCacheAssumption
    DEF AcquireWaits, Exclusion, Holding, Content, Complete, Files, Goto, TypeOK,
        InCritical, Critical, Ended, StoresOnly, LocalCacheAssumption, Procs, Writers,
        Makers
<1>7. ASSUME NEW p \in Writers, AcquireTimesOut(p) PROVE Holding'
    BY <1>7, LocalCacheAssumption
    DEF AcquireTimesOut, GivesUp, Exclusion, Holding, Content, Complete, Files, Goto,
        TypeOK, InCritical, Critical, Ended, StoresOnly, LocalCacheAssumption, Procs,
        Writers, Makers
<1>8. ASSUME NEW p \in Writers, AcquireFindsStale(p) PROVE Holding'
    BY <1>8, LocalCacheAssumption
    DEF AcquireFindsStale, Exclusion, Holding, Content, Complete, Files, Goto, TypeOK,
        InCritical, Critical, Ended, StoresOnly, LocalCacheAssumption, Procs, Writers,
        Makers
<1>9. ASSUME NEW p \in Writers, BreakLock(p) PROVE Holding'
    BY <1>9, LocalCacheAssumption
    DEF BreakLock, Unlock, Exclusion, Holding, Content, Complete, Files, Goto, TypeOK,
        InCritical, Critical, Ended, StoresOnly, LocalCacheAssumption, Procs, Writers,
        Makers
<1>10. ASSUME NEW p \in Writers, FindEntry(p) PROVE Holding'
    BY <1>10, LocalCacheAssumption
    DEF FindEntry, AlreadyStored, Unlock, Exclusion, Holding, Content, Complete, Files,
        Goto, TypeOK, InCritical, Critical, Ended, StoresOnly, LocalCacheAssumption, Procs,
        Writers, Makers
<1>11. ASSUME NEW p \in Writers, ReplaceEntry(p) PROVE Holding'
    BY <1>11, LocalCacheAssumption
    DEF ReplaceEntry, AlreadyStored, AfterRemoval, Exclusion, Holding, Content, Complete,
        Files, Goto, TypeOK, InCritical, Critical, Ended, StoresOnly, LocalCacheAssumption,
        Procs, Writers, Makers
<1>12. ASSUME NEW p \in Writers, CreateTemp(p) PROVE Holding'
    BY <1>12, LocalCacheAssumption
    DEF CreateTemp, Exclusion, Holding, Content, Complete, Files, Goto, TypeOK, InCritical,
        Critical, Ended, StoresOnly, LocalCacheAssumption, Procs, Writers, Makers
<1>13. ASSUME NEW p \in Writers, WriteTemp(p) PROVE Holding'
    BY <1>13, LocalCacheAssumption
    DEF WriteTemp, Exclusion, Holding, Content, Complete, Files, Goto, TypeOK, InCritical,
        Critical, Ended, StoresOnly, LocalCacheAssumption, Procs, Writers, Makers
<1>14. ASSUME NEW p \in Writers, WriteFails(p) PROVE Holding'
    BY <1>14, LocalCacheAssumption
    DEF WriteFails, Unlock, Exclusion, Holding, Content, Complete, Files, Goto, TypeOK,
        InCritical, Critical, Ended, StoresOnly, LocalCacheAssumption, Procs, Writers,
        Makers
<1>15. ASSUME NEW p \in Writers, Install(p) PROVE Holding'
    BY <1>15, LocalCacheAssumption
    DEF Install, AlreadyStored, CanInstall, Unlock, Exclusion, Holding, Content, Complete,
        Files, Goto, TypeOK, InCritical, Critical, Ended, StoresOnly, LocalCacheAssumption,
        Procs, Writers, Makers
<1>16. ASSUME NEW p \in Writers, InstallFindsEntry(p) PROVE Holding'
    BY <1>16, LocalCacheAssumption
    DEF InstallFindsEntry, AlreadyStored, Unlock, Exclusion, Holding, Content, Complete,
        Files, Goto, TypeOK, InCritical, Critical, Ended, StoresOnly, LocalCacheAssumption,
        Procs, Writers, Makers
<1>17. ASSUME NEW p \in Writers, InstallFails(p) PROVE Holding'
    BY <1>17, LocalCacheAssumption
    DEF InstallFails, AlreadyStored, CanInstall, Unlock, Exclusion, Holding, Content,
        Complete, Files, Goto, TypeOK, InCritical, Critical, Ended, StoresOnly,
        LocalCacheAssumption, Procs, Writers, Makers
<1>18. ASSUME NEW p \in Writers, RemoveFile(p) PROVE Holding'
    BY <1>18, LocalCacheAssumption
    DEF RemoveFile, Exclusion, Holding, Content, Complete, Files, Goto, TypeOK, InCritical,
        Critical, Ended, StoresOnly, LocalCacheAssumption, Procs, Writers, Makers
<1>19. ASSUME NEW p \in Writers, RemoveEnds(p) PROVE Holding'
    BY <1>19, LocalCacheAssumption
    DEF RemoveEnds, StillThere, AfterRemoval, Exclusion, Holding, Content, Complete, Files,
        Goto, TypeOK, InCritical, Critical, Ended, StoresOnly, LocalCacheAssumption, Procs,
        Writers, Makers
<1>20. ASSUME NEW p \in Writers, RemoveFails(p) PROVE Holding'
    BY <1>20, LocalCacheAssumption
    DEF RemoveFails, Unlock, Exclusion, Holding, Content, Complete, Files, Goto, TypeOK,
        InCritical, Critical, Ended, StoresOnly, LocalCacheAssumption, Procs, Writers,
        Makers
<1>21. ASSUME NEW p \in Restorers, Lookup(p) PROVE Holding'
    BY <1>21, LocalCacheAssumption
    DEF Lookup, LookupHits, Exclusion, Holding, Content, Complete, Files, Goto, TypeOK,
        InCritical, Critical, Ended, StoresOnly, LocalCacheAssumption, Procs, Writers,
        Makers
<1>22. ASSUME NEW p \in Restorers, ReadFile(p) PROVE Holding'
    BY <1>22, LocalCacheAssumption
    DEF ReadFile, Found, Exclusion, Holding, Content, Complete, Files, Goto, TypeOK,
        InCritical, Critical, Ended, StoresOnly, LocalCacheAssumption, Procs, Writers,
        Makers
<1>23. ASSUME NEW p \in Restorers, ReadFails(p) PROVE Holding'
    BY <1>23, LocalCacheAssumption
    DEF ReadFails, Found, Exclusion, Holding, Content, Complete, Files, Goto, TypeOK,
        InCritical, Critical, Ended, StoresOnly, LocalCacheAssumption, Procs, Writers,
        Makers
<1>24. ASSUME NEW p \in Procs, Kill(p) PROVE Holding'
    BY <1>24, LocalCacheAssumption
    DEF Kill, Exclusion, Holding, Content, Complete, Files, Goto, TypeOK, InCritical,
        Critical, Ended, StoresOnly, LocalCacheAssumption, Procs, Writers, Makers
<1>25. ASSUME UNCHANGED vars PROVE Holding'
    BY <1>25, LocalCacheAssumption
    DEF vars, Exclusion, Holding, Content, Complete, Files, Goto, TypeOK, InCritical,
        Critical, Ended, StoresOnly, LocalCacheAssumption, Procs, Writers, Makers
<1> QED BY <1>1, <1>2, <1>3, <1>4, <1>5, <1>6, <1>7, <1>8, <1>9, <1>10, <1>11, <1>12, <1>13,
    <1>14, <1>15, <1>16, <1>17, <1>18, <1>19, <1>20, <1>21, <1>22, <1>23, <1>24, <1>25,
    StepsOfStores
    DEF Write, Remove, Restore, Exclusion

(* No step of anyone disturbs a complete entry. *)
LEMMA EntriesStay ==
    ASSUME StoresOnly, TypeOK, Exclusion, Holding, [Next]_vars
    PROVE  Complete => Complete' /\ at' = at
<1>1. ASSUME NEW p \in Writers, StoreBegins(p) PROVE Complete => Complete' /\ at' = at
    BY <1>1, LocalCacheAssumption
    DEF StoreBegins, CleansUp, Unlock, Exclusion, Holding, Content, Complete, Files, Goto,
        TypeOK, InCritical, Critical, LocalCacheAssumption, Procs, Writers, Makers
<1>2. ASSUME NEW p \in Writers, ImportMisses(p) PROVE Complete => Complete' /\ at' = at
    BY <1>2, LocalCacheAssumption
    DEF ImportMisses, Exclusion, Holding, Content, Complete, Files, Goto, TypeOK,
        InCritical, Critical, LocalCacheAssumption, Procs, Writers, Makers
<1>3. ASSUME NEW p \in Writers, ImportBegins(p) PROVE Complete => Complete' /\ at' = at
    BY <1>3, LocalCacheAssumption
    DEF ImportBegins, Exclusion, Holding, Content, Complete, Files, Goto, TypeOK,
        InCritical, Critical, LocalCacheAssumption, Procs, Writers, Makers
<1>4. ASSUME NEW p \in Writers, Acquire(p) PROVE Complete => Complete' /\ at' = at
    BY <1>4, LocalCacheAssumption
    DEF Acquire, LockIsFree, Exclusion, Holding, Content, Complete, Files, Goto, TypeOK,
        InCritical, Critical, LocalCacheAssumption, Procs, Writers, Makers
<1>5. ASSUME NEW p \in Writers, AcquireFindsEntry(p) PROVE Complete => Complete' /\ at' = at
    BY <1>5, LocalCacheAssumption
    DEF AcquireFindsEntry, Exclusion, Holding, Content, Complete, Files, Goto, TypeOK,
        InCritical, Critical, LocalCacheAssumption, Procs, Writers, Makers
<1>6. ASSUME NEW p \in Writers, AcquireWaits(p) PROVE Complete => Complete' /\ at' = at
    BY <1>6, LocalCacheAssumption
    DEF AcquireWaits, Exclusion, Holding, Content, Complete, Files, Goto, TypeOK,
        InCritical, Critical, LocalCacheAssumption, Procs, Writers, Makers
<1>7. ASSUME NEW p \in Writers, AcquireTimesOut(p) PROVE Complete => Complete' /\ at' = at
    BY <1>7, LocalCacheAssumption
    DEF AcquireTimesOut, GivesUp, Exclusion, Holding, Content, Complete, Files, Goto,
        TypeOK, InCritical, Critical, LocalCacheAssumption, Procs, Writers, Makers
<1>8. ASSUME NEW p \in Writers, AcquireFindsStale(p) PROVE Complete => Complete' /\ at' = at
    BY <1>8, LocalCacheAssumption
    DEF AcquireFindsStale, Exclusion, Holding, Content, Complete, Files, Goto, TypeOK,
        InCritical, Critical, LocalCacheAssumption, Procs, Writers, Makers
<1>9. ASSUME NEW p \in Writers, BreakLock(p) PROVE Complete => Complete' /\ at' = at
    BY <1>9, LocalCacheAssumption
    DEF BreakLock, Unlock, Exclusion, Holding, Content, Complete, Files, Goto, TypeOK,
        InCritical, Critical, LocalCacheAssumption, Procs, Writers, Makers
<1>10. ASSUME NEW p \in Writers, FindEntry(p) PROVE Complete => Complete' /\ at' = at
    BY <1>10, LocalCacheAssumption
    DEF FindEntry, AlreadyStored, Unlock, Exclusion, Holding, Content, Complete, Files,
        Goto, TypeOK, InCritical, Critical, LocalCacheAssumption, Procs, Writers, Makers
<1>11. ASSUME NEW p \in Writers, ReplaceEntry(p) PROVE Complete => Complete' /\ at' = at
    BY <1>11, LocalCacheAssumption
    DEF ReplaceEntry, AlreadyStored, AfterRemoval, Exclusion, Holding, Content, Complete,
        Files, Goto, TypeOK, InCritical, Critical, LocalCacheAssumption, Procs, Writers,
        Makers
<1>12. ASSUME NEW p \in Writers, CreateTemp(p) PROVE Complete => Complete' /\ at' = at
    BY <1>12, LocalCacheAssumption
    DEF CreateTemp, Exclusion, Holding, Content, Complete, Files, Goto, TypeOK, InCritical,
        Critical, LocalCacheAssumption, Procs, Writers, Makers
<1>13. ASSUME NEW p \in Writers, WriteTemp(p) PROVE Complete => Complete' /\ at' = at
    BY <1>13, LocalCacheAssumption
    DEF WriteTemp, Exclusion, Holding, Content, Complete, Files, Goto, TypeOK, InCritical,
        Critical, LocalCacheAssumption, Procs, Writers, Makers
<1>14. ASSUME NEW p \in Writers, WriteFails(p) PROVE Complete => Complete' /\ at' = at
    BY <1>14, LocalCacheAssumption
    DEF WriteFails, Unlock, Exclusion, Holding, Content, Complete, Files, Goto, TypeOK,
        InCritical, Critical, LocalCacheAssumption, Procs, Writers, Makers
<1>15. ASSUME NEW p \in Writers, Install(p) PROVE Complete => Complete' /\ at' = at
    BY <1>15, LocalCacheAssumption
    DEF Install, AlreadyStored, CanInstall, Unlock, Exclusion, Holding, Content, Complete,
        Files, Goto, TypeOK, InCritical, Critical, LocalCacheAssumption, Procs, Writers,
        Makers
<1>16. ASSUME NEW p \in Writers, InstallFindsEntry(p) PROVE Complete => Complete' /\ at' = at
    BY <1>16, LocalCacheAssumption
    DEF InstallFindsEntry, AlreadyStored, Unlock, Exclusion, Holding, Content, Complete,
        Files, Goto, TypeOK, InCritical, Critical, LocalCacheAssumption, Procs, Writers,
        Makers
<1>17. ASSUME NEW p \in Writers, InstallFails(p) PROVE Complete => Complete' /\ at' = at
    BY <1>17, LocalCacheAssumption
    DEF InstallFails, AlreadyStored, CanInstall, Unlock, Exclusion, Holding, Content,
        Complete, Files, Goto, TypeOK, InCritical, Critical, LocalCacheAssumption, Procs,
        Writers, Makers
<1>18. ASSUME NEW p \in Writers, RemoveFile(p) PROVE Complete => Complete' /\ at' = at
    BY <1>18, LocalCacheAssumption
    DEF RemoveFile, Exclusion, Holding, Content, Complete, Files, Goto, TypeOK, InCritical,
        Critical, LocalCacheAssumption, Procs, Writers, Makers
<1>19. ASSUME NEW p \in Writers, RemoveEnds(p) PROVE Complete => Complete' /\ at' = at
    BY <1>19, LocalCacheAssumption
    DEF RemoveEnds, StillThere, AfterRemoval, Exclusion, Holding, Content, Complete, Files,
        Goto, TypeOK, InCritical, Critical, LocalCacheAssumption, Procs, Writers, Makers
<1>20. ASSUME NEW p \in Writers, RemoveFails(p) PROVE Complete => Complete' /\ at' = at
    BY <1>20, LocalCacheAssumption
    DEF RemoveFails, Unlock, Exclusion, Holding, Content, Complete, Files, Goto, TypeOK,
        InCritical, Critical, LocalCacheAssumption, Procs, Writers, Makers
<1>21. ASSUME NEW p \in Restorers, Lookup(p) PROVE Complete => Complete' /\ at' = at
    BY <1>21, LocalCacheAssumption
    DEF Lookup, LookupHits, Exclusion, Holding, Content, Complete, Files, Goto, TypeOK,
        InCritical, Critical, LocalCacheAssumption, Procs, Writers, Makers
<1>22. ASSUME NEW p \in Restorers, ReadFile(p) PROVE Complete => Complete' /\ at' = at
    BY <1>22, LocalCacheAssumption
    DEF ReadFile, Found, Exclusion, Holding, Content, Complete, Files, Goto, TypeOK,
        InCritical, Critical, LocalCacheAssumption, Procs, Writers, Makers
<1>23. ASSUME NEW p \in Restorers, ReadFails(p) PROVE Complete => Complete' /\ at' = at
    BY <1>23, LocalCacheAssumption
    DEF ReadFails, Found, Exclusion, Holding, Content, Complete, Files, Goto, TypeOK,
        InCritical, Critical, LocalCacheAssumption, Procs, Writers, Makers
<1>24. ASSUME NEW p \in Procs, Kill(p) PROVE Complete => Complete' /\ at' = at
    BY <1>24, LocalCacheAssumption
    DEF Kill, Exclusion, Holding, Content, Complete, Files, Goto, TypeOK, InCritical,
        Critical, LocalCacheAssumption, Procs, Writers, Makers
<1>25. ASSUME UNCHANGED vars PROVE Complete => Complete' /\ at' = at
    BY <1>25, LocalCacheAssumption
    DEF vars, Exclusion, Holding, Content, Complete, Files, Goto, TypeOK, InCritical,
        Critical, LocalCacheAssumption, Procs, Writers, Makers
<1> QED BY <1>1, <1>2, <1>3, <1>4, <1>5, <1>6, <1>7, <1>8, <1>9, <1>10, <1>11, <1>12, <1>13,
    <1>14, <1>15, <1>16, <1>17, <1>18, <1>19, <1>20, <1>21, <1>22, <1>23, <1>24, <1>25,
    StepsOfStores
    DEF Write, Remove, Restore, Exclusion

LEMMA ReadingStays ==
    ASSUME StoresOnly, TypeOK, Exclusion, Holding, Reading, [Next]_vars
    PROVE  Reading'
<1>0. Complete => Complete' /\ at' = at
    BY EntriesStay
<1>1. ASSUME NEW p \in Writers, StoreBegins(p) PROVE Reading'
    BY <1>1, <1>0
    DEF StoreBegins, CleansUp, Unlock, Reading, Goto, TypeOK, StoresOnly, Procs, Writers
<1>2. ASSUME NEW p \in Writers, ImportMisses(p) PROVE Reading'
    BY <1>2, <1>0
    DEF ImportMisses, Reading, Goto, TypeOK, StoresOnly, Procs, Writers
<1>3. ASSUME NEW p \in Writers, ImportBegins(p) PROVE Reading'
    BY <1>3 DEF ImportBegins, Exclusion, Calm
<1>4. ASSUME NEW p \in Writers, Acquire(p) PROVE Reading'
    BY <1>4, <1>0
    DEF Acquire, LockIsFree, Reading, Goto, TypeOK, StoresOnly, Procs, Writers
<1>5. ASSUME NEW p \in Writers, AcquireFindsEntry(p) PROVE Reading'
    BY <1>5, <1>0
    DEF AcquireFindsEntry, Reading, Goto, TypeOK, StoresOnly, Procs, Writers
<1>6. ASSUME NEW p \in Writers, AcquireWaits(p) PROVE Reading'
    BY <1>6, <1>0
    DEF AcquireWaits, Reading, Goto, TypeOK, StoresOnly, Procs, Writers
<1>7. ASSUME NEW p \in Writers, AcquireTimesOut(p) PROVE Reading'
    BY <1>7, <1>0
    DEF AcquireTimesOut, GivesUp, Reading, Goto, TypeOK, StoresOnly, Procs, Writers
<1>8. ASSUME NEW p \in Writers, AcquireFindsStale(p) PROVE Reading'
    BY <1>8, <1>0
    DEF AcquireFindsStale, Reading, Goto, TypeOK, StoresOnly, Procs, Writers
<1>9. ASSUME NEW p \in Writers, BreakLock(p) PROVE Reading'
    BY <1>9, <1>0
    DEF BreakLock, Unlock, Reading, Goto, TypeOK, StoresOnly, Procs, Writers
<1>10. ASSUME NEW p \in Writers, FindEntry(p) PROVE Reading'
    BY <1>10, <1>0
    DEF FindEntry, AlreadyStored, Unlock, Reading, Goto, TypeOK, StoresOnly, Procs, Writers
<1>11. ASSUME NEW p \in Writers, ReplaceEntry(p) PROVE Reading'
    <2>1. pc' = [pc EXCEPT ![p] = "create"] \/ pc' = [pc EXCEPT ![p] = "install"]
              \/ pc' = [pc EXCEPT ![p] = "remove"]
        BY <1>11 DEF ReplaceEntry, AfterRemoval, Goto
    <2>2. got' = got
        BY <1>11 DEF ReplaceEntry
    <2> QED BY <1>0, <2>1, <2>2 DEF Reading, TypeOK, Procs, Writers
<1>12. ASSUME NEW p \in Writers, CreateTemp(p) PROVE Reading'
    BY <1>12, <1>0
    DEF CreateTemp, Reading, Goto, TypeOK, StoresOnly, Procs, Writers
<1>13. ASSUME NEW p \in Writers, WriteTemp(p) PROVE Reading'
    BY <1>13, <1>0
    DEF WriteTemp, Reading, Goto, TypeOK, StoresOnly, Procs, Writers
<1>14. ASSUME NEW p \in Writers, WriteFails(p) PROVE Reading'
    BY <1>14, <1>0
    DEF WriteFails, Unlock, Reading, Goto, TypeOK, StoresOnly, Procs, Writers
<1>15. ASSUME NEW p \in Writers, Install(p) PROVE Reading'
    BY <1>15, <1>0
    DEF Install, AlreadyStored, CanInstall, Unlock, Reading, Goto, TypeOK, StoresOnly,
        Procs, Writers
<1>16. ASSUME NEW p \in Writers, InstallFindsEntry(p) PROVE Reading'
    BY <1>16, <1>0
    DEF InstallFindsEntry, AlreadyStored, Unlock, Reading, Goto, TypeOK, StoresOnly, Procs,
        Writers
<1>17. ASSUME NEW p \in Writers, InstallFails(p) PROVE Reading'
    BY <1>17, <1>0
    DEF InstallFails, AlreadyStored, CanInstall, Unlock, Reading, Goto, TypeOK, StoresOnly,
        Procs, Writers
<1>18. ASSUME NEW p \in Writers, RemoveFile(p) PROVE Reading'
    BY <1>18, <1>0
    DEF RemoveFile, Reading, Goto, TypeOK, StoresOnly, Procs, Writers
<1>19. ASSUME NEW p \in Writers, RemoveEnds(p) PROVE Reading'
    BY <1>19, <1>0
    DEF RemoveEnds, StillThere, AfterRemoval, Reading, Goto, TypeOK, StoresOnly, Procs,
        Writers
<1>20. ASSUME NEW p \in Writers, RemoveFails(p) PROVE Reading'
    BY <1>20, <1>0
    DEF RemoveFails, Unlock, Reading, Goto, TypeOK, StoresOnly, Procs, Writers
<1>21. ASSUME NEW p \in Restorers, Lookup(p) PROVE Reading'
    BY <1>21, <1>0
    DEF Lookup, LookupHits, Reading, Goto, TypeOK, StoresOnly, Procs, Writers
<1>22. ASSUME NEW p \in Restorers, ReadFile(p) PROVE Reading'
    <2>1. Complete /\ at \in Makers /\ Files # {} /\ "stdout" \in Files
        BY <1>22, LocalCacheAssumption DEF ReadFile, Reading, Complete, Content, Files, TypeOK,
            LocalCacheAssumption
    <2>2. Found(NextRead(p))
        BY <1>22, <2>1 DEF ReadFile, Found, Complete
    <2>3. got' = [got EXCEPT ![p] = Append(@, at)] /\ at' = at /\ Complete'
        BY <1>22, <1>0, <2>1, <2>2 DEF ReadFile
    <2>4. \A i \in 1 .. Len(got'[p]) : got'[p][i] = at
        <3>1. got[p] \in Seq(Makers \cup {NoProc}) /\ got'[p] = Append(got[p], at)
            BY <1>22, <2>3 DEF TypeOK
        <3>2. \A i \in 1 .. Len(got[p]) : got[p][i] = at
            BY <1>22 DEF ReadFile, Reading
        <3> DEFINE s == got[p]
        <3>3. Len(Append(s, at)) = Len(s) + 1 /\ Len(s) \in Nat
              /\ \A i \in 1 .. Len(s) : Append(s, at)[i] = s[i]
              /\ Append(s, at)[Len(s) + 1] = at
            BY <2>1, <3>1, AppendProperties
        <3> HIDE DEF s
        <3>4. \A i \in 1 .. Len(Append(s, at)) : Append(s, at)[i] = at
            BY <3>2, <3>3 DEF s
        <3> QED BY <3>1, <3>4 DEF s
    <2>5. ASSUME NEW r \in Restorers, r # p
          PROVE  got'[r] = got[r] /\ pc'[r] = pc[r]
        BY <1>22, <2>3, <2>5 DEF ReadFile, Goto, TypeOK, Procs
    <2>6. pc'[p] \in {"read", "hit"}
        BY <1>22 DEF ReadFile, Goto, TypeOK, Procs
    <2> SUFFICES ASSUME NEW r \in Restorers
                 PROVE  /\ pc'[r] = "idle" => got'[r] = <<>>
                        /\ pc'[r] = "read" => \A i \in 1 .. Len(got'[r]) : got'[r][i] = at
                        /\ pc'[r] = "hit" => \E q \in Makers :
                                                 \A i \in 1 .. Len(got'[r]) : got'[r][i] = q
        BY <2>3 DEF Reading
    <2>7. CASE r = p
        BY <2>1, <2>4, <2>6, <2>7
    <2>8. CASE r # p
        BY <2>5, <2>8 DEF Reading
    <2> QED BY <2>7, <2>8
<1>23. ASSUME NEW p \in Restorers, ReadFails(p) PROVE Reading'
    BY <1>23, <1>0
    DEF ReadFails, Found, Reading, Goto, TypeOK, StoresOnly, Procs, Writers
<1>24. ASSUME NEW p \in Procs, Kill(p) PROVE Reading'
    BY <1>24, <1>0
    DEF Kill, Reading, Goto, TypeOK, StoresOnly, Procs, Writers
<1>25. ASSUME UNCHANGED vars PROVE Reading'
    BY <1>25, <1>0
    DEF vars, Reading, Goto, TypeOK, StoresOnly, Procs, Writers
<1> QED BY <1>1, <1>2, <1>3, <1>4, <1>5, <1>6, <1>7, <1>8, <1>9, <1>10, <1>11, <1>12, <1>13,
    <1>14, <1>15, <1>16, <1>17, <1>18, <1>19, <1>20, <1>21, <1>22, <1>23, <1>24, <1>25,
    StepsOfStores
    DEF Write, Remove, Restore, Exclusion

LEMMA Induction ==
    ASSUME StoresOnly
    PROVE  Spec => []IInv
<1>1. Init => IInv
    <2> SUFFICES ASSUME Init PROVE IInv
        OBVIOUS
    <2>1. Writers \subseteq Procs /\ Restorers \subseteq Procs
        BY DEF Procs, Writers
    <2>2. Types
        BY TypesBegin
    <2> QED BY <2>1, <2>2
        DEF Init, IInv, Exclusion, Calm, Holding, Reading, InCritical, Critical
<1>2. IInv /\ [Next]_vars => IInv'
    BY TypesStay, ExclusionStays, HoldingStays, ReadingStays DEF IInv, Types
<1> QED BY <1>1, <1>2, PTL DEF Spec

(* No two processes write the same entry. *)
THEOREM OneProcessWrites ==
    ASSUME StoresOnly
    PROVE  Spec => []OneHolder
<1>1. IInv => OneHolder
    BY DEF IInv, Exclusion, OneHolder
<1> QED BY <1>1, Induction, PTL

(* Stores never disturb a complete entry, whoever dies holding the lock. *)
THEOREM CompleteEntriesStay ==
    ASSUME StoresOnly
    PROVE  Spec => WholeEntriesStay
<1>1. IInv /\ [Next]_vars => [Complete => Complete' /\ at' = at]_vars
    BY EntriesStay DEF IInv, Types
<1> QED BY <1>1, Induction, PTL DEF Spec, WholeEntriesStay

(* A hit is one whole stored run. *)
THEOREM HitsAreWhole ==
    ASSUME StoresOnly
    PROVE  Spec => []HitsReplayOneRun
<1>1. IInv => HitsReplayOneRun
    BY DEF IInv, Reading, HitsReplayOneRun
<1> QED BY <1>1, Induction, PTL

--------------------------------------------------------------------------------
(* Prunes of the cache. *)

PrCandidates == [path : PrPaths, copy : 1..prCount, created : 0..PrMaxTime + 1]

(* The types, and what goes with where the prune is. *)
PrPruneIsTyped ==
    /\ prNow \in 0..PrMaxTime /\ prCount \in 0..PrMaxCopies /\ prSince \in Nat
    /\ prDisk \in [PrPaths -> [copy : 0..prCount, created : 0..PrMaxTime + 1,
                                meta : {"unwritten", "there", "gone"}]]
    /\ prAt \in {"idle", "walk", "expire", "evict", "done", "failed"}
    /\ prOthers \in {"nothing", "removed", "stored"}
    /\ prLimit.age \subseteq Nat /\ prLimit.size \subseteq Nat
    /\ prLeft \subseteq PrPaths /\ prTotal \in Nat
    /\ prSeen \subseteq PrCandidates /\ IsFiniteSet(prSeen)
    /\ prKept \subseteq prSeen /\ prRemoving \subseteq prKept /\ prEvicted \subseteq prSeen
    /\ prAt = "idle" => prSeen = {}
    /\ prRemoving # {} => prAt \in {"expire", "evict"} /\ \E s \in prKept : prRemoving = {s}
    /\ prEvicted # {} => prAt \in {"evict", "done"}

(* A copy is at one path at a time, and never comes back to its work directory. *)
PrCopiesAreOne ==
    /\ \A x \in PrPaths : prDisk[x].meta # "gone" => prDisk[x].copy # 0
    /\ \A x, y \in PrPaths : prDisk[x].copy = prDisk[y].copy /\ prDisk[x].copy # 0 => x = y
    /\ \A t \in prSeen, e \in PrEntries :
          t.path[2] = "entry" => prDisk[<<e, "temp">>].copy # t.copy

(* What the prune has removed is not there, whoever stores meanwhile. *)
PrRemovedAreGone ==
    prAt \in {"expire", "evict", "done"} => \A t \in prSeen \ prKept : prDisk[t.path].copy # t.copy

(* Without stores, whatever is on the disk will be seen, or was. *)
PrNothingIsMissed ==
    prOthers # "stored" =>
        /\ prAt = "walk" => \A x \in PrPaths :
              prDisk[x].meta = "there" => x \in prLeft \/ PrCandidate(x) \in prSeen
        /\ prAt \in {"expire", "evict", "done"} => \A x \in PrPaths :
              prDisk[x].meta = "there" => PrCandidate(x) \in prKept

PrTotalIsOfKept ==
    /\ prAt \in {"evict", "done"} => prTotal = PrBytes(prKept) /\ \A s \in prKept : ~PrExpired(s)
    /\ prAt = "done" => ~PrTooMuch

(* What was taken for its size was the oldest, and too much. *)
PrEvictionsAreDue ==
    \A s \in prEvicted :
        /\ \A t \in prKept : s.created <= t.created
        /\ \E size \in prLimit.size : PrBytes({t \in prSeen : t.created >= s.created}) > size

PrIInv ==
    /\ PrPruneIsTyped
    /\ PrCopiesAreOne
    /\ PrRemovedAreGone
    /\ PrNothingIsMissed
    /\ PrTotalIsOfKept
    /\ PrEvictionsAreDue

--------------------------------------------------------------------------------
(* Bytes. *)

PrBytesOf(s) == {s} \X (1..PrSize[s.path[1]])
PrAllBytes(S) == UNION {PrBytesOf(s) : s \in S}

(* A set of candidates has a number of bytes, those of one its size; *)
LEMMA PrBytesAreFinite ==
    ASSUME NEW S, IsFiniteSet(S), \A s \in S : s.path \in PrPaths
    PROVE  /\ IsFiniteSet(PrAllBytes(S)) /\ PrBytes(S) = Cardinality(PrAllBytes(S))
           /\ PrBytes(S) \in Nat
           /\ \A s \in S : /\ IsFiniteSet(PrBytesOf(s))
                           /\ PrSize[s.path[1]] \in Nat
                           /\ Cardinality(PrBytesOf(s)) = PrSize[s.path[1]]
<1>1. PrBytes(S) = Cardinality(PrAllBytes(S))
  BY DEF PrBytes, PrAllBytes, PrBytesOf
<1>2. ASSUME NEW s \in S
      PROVE  /\ IsFiniteSet(PrBytesOf(s))
             /\ PrSize[s.path[1]] \in Nat
             /\ Cardinality(PrBytesOf(s)) = PrSize[s.path[1]]
  <2>. DEFINE n == PrSize[s.path[1]]
  <2>1. n \in Nat
    BY PrAssumption DEF PrPaths
  <2>2. IsFiniteSet(1..n) /\ Cardinality(1..n) = n
    <3>. HIDE DEF n
    <3>1. 1 \in Int /\ n \in Int /\ (IF 1 > n THEN 0 ELSE n - 1 + 1) = n
      BY <2>1
    <3>. QED
      BY <3>1, FS_Interval
  <2>3. IsFiniteSet({s}) /\ Cardinality({s}) = 1
    BY FS_Singleton
  <2>4. IsFiniteSet({s} \X (1..n)) /\ Cardinality({s} \X (1..n)) = 1 * n
    <3>. HIDE DEF n
    <3>. QED
      BY <2>2, <2>3, FS_Product
  <2>. QED
    BY <2>1, <2>4 DEF PrBytesOf
<1>3. IsFiniteSet(PrAllBytes(S))
  <2>. DEFINE T == {PrBytesOf(s) : s \in S}
              f == [s \in S |-> PrBytesOf(s)]
  <2>1. f \in Surjection(S, T)
    BY DEF Surjection
  <2>2. IsFiniteSet(T)
    <3>. HIDE DEF f, T
    <3>. QED
      BY <2>1, FS_Surjection
  <2>3. \A B \in T : IsFiniteSet(B)
    BY <1>2
  <2>4. IsFiniteSet(UNION T)
    <3>. HIDE DEF f, T
    <3>. QED
      BY <2>2, <2>3, FS_UNION
  <2>. QED
    BY <2>4 DEF PrAllBytes
<1>. QED
  BY <1>1, <1>2, <1>3, FS_CardinalityType

(* without one of them it has as many less; *)
LEMMA PrBytesWithout ==
    ASSUME NEW S, IsFiniteSet(S), \A s \in S : s.path \in PrPaths, NEW s \in S
    PROVE  PrBytes(S \ {s}) = PrBytes(S) - PrSize[s.path[1]] /\ PrBytes(S \ {s}) \in Nat
<1>1. IsFiniteSet(S \ {s}) /\ \A t \in S \ {s} : t.path \in PrPaths
  BY FS_RemoveElement
<1>2. /\ IsFiniteSet(PrAllBytes(S)) /\ PrBytes(S) = Cardinality(PrAllBytes(S))
      /\ PrBytes(S) \in Nat /\ IsFiniteSet(PrBytesOf(s)) /\ PrSize[s.path[1]] \in Nat
      /\ Cardinality(PrBytesOf(s)) = PrSize[s.path[1]]
  BY PrBytesAreFinite
<1>3. PrBytes(S \ {s}) = Cardinality(PrAllBytes(S \ {s})) /\ PrBytes(S \ {s}) \in Nat
  BY <1>1, PrBytesAreFinite
<1>4. PrAllBytes(S \ {s}) = PrAllBytes(S) \ PrBytesOf(s)
  <2>1. \A t \in S : t # s => PrBytesOf(t) \cap PrBytesOf(s) = {}
    BY DEF PrBytesOf
  <2>. QED
    BY <2>1 DEF PrAllBytes
<1>5. PrAllBytes(S) \cap PrBytesOf(s) = PrBytesOf(s)
  BY DEF PrAllBytes
<1>6. Cardinality(PrAllBytes(S) \ PrBytesOf(s))
        = Cardinality(PrAllBytes(S)) - Cardinality(PrAllBytes(S) \cap PrBytesOf(s))
  BY <1>2, FS_Difference
<1>. QED
  BY <1>2, <1>3, <1>4, <1>5, <1>6

(* and a part of it has no more. *)
LEMMA PrBytesOfPart ==
    ASSUME NEW S, IsFiniteSet(S), \A s \in S : s.path \in PrPaths, NEW T, T \subseteq S
    PROVE  PrBytes(T) \in Nat /\ PrBytes(S) \in Nat /\ PrBytes(T) <= PrBytes(S)
<1>1. IsFiniteSet(T) /\ \A t \in T : t.path \in PrPaths
  BY FS_Subset
<1>2. PrAllBytes(T) \subseteq PrAllBytes(S)
  BY DEF PrAllBytes
<1>. QED
  BY <1>1, <1>2, PrBytesAreFinite, FS_Subset

--------------------------------------------------------------------------------
(* What becomes of the directories. *)

PrDirectories == [copy : 0..prCount, created : 0..PrMaxTime + 1,
                  meta : {"unwritten", "there", "gone"}]

(* Whoever removes leaves a directory as it was, without its meta.json, or nothing. *)
PrDiskShrinks ==
    /\ prCount' = prCount /\ prDisk' \in [PrPaths -> PrDirectories]
    /\ \A x \in PrPaths :
          \/ prDisk'[x] = PrNothing
          \/ /\ prDisk'[x].copy = prDisk[x].copy
             /\ prDisk'[x].created = prDisk[x].created
             /\ prDisk'[x].meta \in {prDisk[x].meta, "gone"}

(* Every candidate is at a path, and its copy has a number. *)
LEMMA PrCandidatesAre ==
    ASSUME PrPruneIsTyped, NEW t \in prSeen
    PROVE  t.path \in PrPaths /\ t.copy \in 1..prCount /\ t.created \in 0..PrMaxTime + 1
BY DEF PrPruneIsTyped, PrCandidates

(* To remove keeps one copy at a path, brings none back and adds no entry. *)
LEMMA PrShrinkingKeeps ==
    ASSUME PrIInv, PrDiskShrinks
    PROVE  /\ prSeen' = prSeen => PrCopiesAreOne'
           /\ \A t \in prSeen : prDisk[t.path].copy # t.copy => prDisk'[t.path].copy # t.copy
           /\ \A x \in PrPaths : prDisk'[x].meta = "there" =>
                 prDisk[x].meta = "there" /\ PrCandidate(x)' = PrCandidate(x)
<1>. USE DEF PrIInv
<1>1. \A x \in PrPaths : prDisk[x] \in PrDirectories /\ prDisk'[x] \in PrDirectories
  BY DEF PrPruneIsTyped, PrDirectories, PrDiskShrinks
<1>2. \A x \in PrPaths : prDisk'[x].copy # 0 => prDisk'[x].copy = prDisk[x].copy
  BY DEF PrDiskShrinks, PrNothing
<1>3. ASSUME prSeen' = prSeen PROVE PrCopiesAreOne'
  <2>1. \A x \in PrPaths : prDisk'[x].meta # "gone" => prDisk'[x].copy # 0
    BY DEF PrDiskShrinks, PrNothing, PrCopiesAreOne
  <2>2. \A x, y \in PrPaths : prDisk'[x].copy = prDisk'[y].copy /\ prDisk'[x].copy # 0 => x = y
    BY <1>2 DEF PrCopiesAreOne
  <2>3. \A t \in prSeen, e \in PrEntries :
           t.path[2] = "entry" => prDisk'[<<e, "temp">>].copy # t.copy
    <3>1. \A t \in prSeen : t.copy # 0
      BY PrCandidatesAre
    <3>2. \A e \in PrEntries : <<e, "temp">> \in PrPaths
      BY DEF PrPaths
    <3>. QED
      BY <1>2, <3>1, <3>2 DEF PrCopiesAreOne
  <2>. QED
    BY <1>3, <2>1, <2>2, <2>3 DEF PrCopiesAreOne
<1>4. \A t \in prSeen : prDisk[t.path].copy # t.copy => prDisk'[t.path].copy # t.copy
  <2>1. \A t \in prSeen : t.copy # 0 /\ t.path \in PrPaths
    BY PrCandidatesAre
  <2>. QED
    BY <1>2, <2>1
<1>5. \A x \in PrPaths : prDisk'[x].meta = "there" =>
         prDisk[x].meta = "there" /\ PrCandidate(x)' = PrCandidate(x)
  BY DEF PrDiskShrinks, PrNothing, PrCandidate
<1>. QED
  BY <1>3, <1>4, <1>5

(* To leave the directories keeps all that too. *)
LEMMA PrSameDisk ==
    ASSUME PrPruneIsTyped, UNCHANGED prDirs
    PROVE  PrDiskShrinks
BY DEF PrPruneIsTyped, prDirs, PrDiskShrinks, PrDirectories

(* The directories others remove from shrink; *)
LEMMA PrOthersShrink ==
    ASSUME PrPruneIsTyped, NEW S, PrOthersRemove(S)
    PROVE  PrDiskShrinks
<1>1. PrNothing \in PrDirectories
  BY PrAssumption DEF PrNothing, PrDirectories, PrPruneIsTyped
<1>2. CASE prDisk' = [x \in PrPaths |-> IF x \in S THEN PrNothing ELSE prDisk[x]]
  BY <1>1, <1>2 DEF PrPruneIsTyped, PrDiskShrinks, PrOthersRemove, PrDirectories
<1>3. CASE prDisk' = [x \in PrPaths |->
                        IF x \in S THEN [prDisk[x] EXCEPT !.meta = "gone"] ELSE prDisk[x]]
  <2>1. \A x \in PrPaths : /\ prDisk[x] \in PrDirectories
                           /\ [prDisk[x] EXCEPT !.meta = "gone"] \in PrDirectories
                           /\ [prDisk[x] EXCEPT !.meta = "gone"].copy = prDisk[x].copy
                           /\ [prDisk[x] EXCEPT !.meta = "gone"].created = prDisk[x].created
                           /\ [prDisk[x] EXCEPT !.meta = "gone"].meta = "gone"
    BY DEF PrPruneIsTyped, PrDirectories
  <2>2. prDisk' \in [PrPaths -> PrDirectories]
    BY <1>3, <2>1
  <2>3. prCount' = prCount
    BY DEF PrOthersRemove
  <2>4. ASSUME NEW x \in PrPaths
        PROVE  /\ prDisk'[x].copy = prDisk[x].copy
               /\ prDisk'[x].created = prDisk[x].created
               /\ prDisk'[x].meta \in {prDisk[x].meta, "gone"}
    <3>1. CASE x \in S
      BY <1>3, <2>1, <3>1
    <3>2. CASE x \notin S
      BY <1>3, <3>2
    <3>. QED
      BY <3>1, <3>2
  <2>. QED
    BY <2>2, <2>3, <2>4 DEF PrDiskShrinks
<1>. QED
  BY <1>2, <1>3 DEF PrOthersRemove

(* so do those a prune sweeps, *)
LEMMA PrSweepShrinks ==
    ASSUME PrPruneIsTyped, NEW l, PrSweep(l)
    PROVE  PrDiskShrinks
<1>1. PrNothing \in PrDirectories
  BY PrAssumption DEF PrNothing, PrDirectories, PrPruneIsTyped
<1>. QED
  BY <1>1 DEF PrPruneIsTyped, PrDiskShrinks, PrSweep, PrDirectories

(* begins to remove *)
LEMMA PrRemoveShrinks ==
    ASSUME PrPruneIsTyped, NEW s \in prSeen, PrRemove(s)
    PROVE  PrDiskShrinks
<1>1. s.path \in PrPaths
  BY PrCandidatesAre
<1>2. CASE prDisk' = prDisk
  BY <1>2 DEF PrPruneIsTyped, PrDiskShrinks, PrRemove, PrDirectories
<1>3. CASE prDisk' = [prDisk EXCEPT ![s.path].meta = "gone"]
  <2>. DEFINE d == [prDisk[s.path] EXCEPT !.meta = "gone"]
  <2>1. /\ d \in PrDirectories
        /\ d.copy = prDisk[s.path].copy /\ d.created = prDisk[s.path].created /\ d.meta = "gone"
    BY <1>1 DEF PrPruneIsTyped, PrDirectories
  <2>2. prDisk' = [prDisk EXCEPT ![s.path] = d]
    BY <1>3
  <2>. HIDE DEF d
  <2>. QED
    BY <1>1, <2>1, <2>2 DEF PrPruneIsTyped, PrDiskShrinks, PrRemove, PrDirectories
<1>. QED
  BY <1>2, <1>3 DEF PrRemove

(* and has removed. *)
LEMMA PrRemovedShrinks ==
    ASSUME PrPruneIsTyped, NEW s \in prKept, PrRemoved(s)
    PROVE  PrDiskShrinks /\ prDisk' = [prDisk EXCEPT ![s.path] = PrNothing]
<1>1. PrNothing \in PrDirectories
  BY PrAssumption DEF PrNothing, PrDirectories, PrPruneIsTyped
<1>2. s \in prSeen
  BY DEF PrPruneIsTyped
<1>3. s.path \in PrPaths
  BY <1>2, PrCandidatesAre
<1>. QED
  BY <1>1, <1>3 DEF PrPruneIsTyped, PrDiskShrinks, PrRemoved, PrDirectories

--------------------------------------------------------------------------------
(* The steps of others. *)

(* What the prune does not do leaves its account. *)
LEMMA PrAccountStays ==
    ASSUME PrIInv, UNCHANGED <<prAt, prLimit, prSince, prSeen, prKept, prTotal, prEvicted>>
    PROVE  PrTotalIsOfKept' /\ PrEvictionsAreDue'
<1>1. PrTotalIsOfKept'
  BY DEF PrIInv, PrTotalIsOfKept, PrBytes, PrExpired, PrTooMuch
<1>2. PrEvictionsAreDue'
  BY DEF PrIInv, PrEvictionsAreDue, PrBytes
<1>. QED
  BY <1>1, <1>2

LEMMA PrTickKeeps == ASSUME PrIInv, PrTick PROVE PrIInv'
<1>. USE DEF PrTick, prDirs, prFound, prDoing
<1>1. PrPruneIsTyped'
  BY PrAssumption DEF PrIInv, PrPruneIsTyped, PrCandidates
<1>2. PrCopiesAreOne' /\ PrRemovedAreGone' /\ PrNothingIsMissed'
  BY DEF PrIInv, PrCopiesAreOne, PrRemovedAreGone, PrNothingIsMissed, PrCandidate
<1>3. PrTotalIsOfKept' /\ PrEvictionsAreDue'
  BY PrAccountStays
<1>. QED
  BY <1>1, <1>2, <1>3 DEF PrIInv

LEMMA PrOthersRemoveKeeps == ASSUME PrIInv, NEW S, PrOthersRemove(S) PROVE PrIInv'
<1>. USE DEF PrOther, prDirs, prFound, prDoing
<1>1. PrDiskShrinks
  BY PrOthersShrink DEF PrIInv
<1>2. UNCHANGED <<prNow, prCount, prAt, prLimit, prSince, prLeft, prSeen, prKept, prRemoving,
                  prTotal, prEvicted>>
  BY DEF PrOthersRemove
<1>3. prOthers' \in {"removed", "stored"} /\ (prOthers' # "stored" => prOthers # "stored")
  BY DEF PrOthersRemove
<1>4. PrPruneIsTyped'
  BY <1>1, <1>2, <1>3 DEF PrIInv, PrPruneIsTyped, PrCandidates, PrDiskShrinks, PrDirectories
<1>5. PrCopiesAreOne'
  BY <1>1, <1>2, PrShrinkingKeeps
<1>6. PrRemovedAreGone'
  BY <1>1, <1>2, PrShrinkingKeeps DEF PrIInv, PrRemovedAreGone
<1>7. PrNothingIsMissed'
  BY <1>1, <1>2, <1>3, PrShrinkingKeeps DEF PrIInv, PrNothingIsMissed
<1>8. PrTotalIsOfKept' /\ PrEvictionsAreDue'
  BY <1>2, PrAccountStays
<1>. QED
  BY <1>4, <1>5, <1>6, <1>7, <1>8 DEF PrIInv

(* What stays for a store, whatever becomes of the directories. *)
LEMMA PrStoresKeep ==
    ASSUME PrIInv, PrOther("stored"), prCount' \in 0..PrMaxCopies, prCount <= prCount',
           prDisk' \in [PrPaths -> PrDirectories'],
           PrCopiesAreOne',
           \A t \in prSeen : prDisk[t.path].copy # t.copy => prDisk'[t.path].copy # t.copy
    PROVE  PrIInv'
<1>. USE DEF PrOther, prDirs, prFound, prDoing
<1>1. UNCHANGED <<prNow, prAt, prLimit, prSince, prLeft, prSeen, prKept, prRemoving,
                  prTotal, prEvicted>>
  OBVIOUS
<1>2. prOthers' = "stored"
  OBVIOUS
<1>3. PrPruneIsTyped'
  <2>1. prSeen' \subseteq PrCandidates'
    <3>1. prCount \in Nat /\ prCount' \in Nat
      BY PrAssumption DEF PrIInv, PrPruneIsTyped
    <3>2. 1..prCount \subseteq 1..prCount'
      BY <3>1
    <3>. QED
      BY <1>1, <3>2 DEF PrIInv, PrPruneIsTyped, PrCandidates
  <2>. QED
    BY <1>1, <1>2, <2>1 DEF PrIInv, PrPruneIsTyped, PrDirectories
<1>4. PrRemovedAreGone'
  BY <1>1 DEF PrIInv, PrRemovedAreGone
<1>5. PrNothingIsMissed'
  BY <1>2 DEF PrNothingIsMissed
<1>6. PrTotalIsOfKept' /\ PrEvictionsAreDue'
  BY <1>1, PrAccountStays
<1>. QED
  BY <1>3, <1>4, <1>5, <1>6 DEF PrIInv

LEMMA PrStoreKeeps == ASSUME PrIInv, NEW e \in PrEntries, PrStore(e) PROVE PrIInv'
<1>. DEFINE en == <<e, "entry">>
            te == <<e, "temp">>
            new == [copy |-> prCount + 1, created |-> prNow + 1, meta |-> "unwritten"]
<1>1. /\ en \in PrPaths /\ te \in PrPaths /\ en # te
      /\ \A f \in PrEntries : <<f, "temp">> # en /\ <<f, "temp">> \in PrPaths
  BY DEF PrPaths
<1>2. /\ prCount \in Nat /\ prCount' = prCount + 1 /\ prCount' \in 0..PrMaxCopies
      /\ prNow \in 0..PrMaxTime /\ PrMaxTime \in Nat
  BY PrAssumption DEF PrIInv, PrPruneIsTyped, PrStore
<1>3. /\ prDisk'[en] = PrNothing /\ prDisk'[te] = new
      /\ \A x \in PrPaths : x # en /\ x # te => prDisk'[x] = prDisk[x]
  BY <1>1 DEF PrStore
<1>4. PrNothing \in PrDirectories' /\ new \in PrDirectories'
  BY <1>2 DEF PrNothing, PrDirectories
<1>5. \A x \in PrPaths : prDisk[x] \in PrDirectories /\ prDisk[x].copy \in 0..prCount
                         /\ prDisk[x] \in PrDirectories'
  BY <1>2 DEF PrIInv, PrPruneIsTyped, PrDirectories
<1>6. /\ new.copy = prCount + 1 /\ new.meta = "unwritten"
      /\ PrNothing.copy = 0 /\ PrNothing.meta = "gone"
  BY DEF PrNothing
<1>. HIDE DEF en, te, new
<1>7. prDisk' \in [PrPaths -> PrDirectories']
  <2>1. \A x \in PrPaths : prDisk'[x] \in PrDirectories'
    BY <1>3, <1>4, <1>5
  <2>2. prDisk' = [x \in PrPaths |-> prDisk'[x]]
    BY DEF PrStore
  <2>. QED
    BY <2>1, <2>2
<1>8. prSeen' = prSeen /\ PrOther("stored")
  BY DEF PrStore, PrOther, prFound
<1>9. PrCopiesAreOne'
  <2>1. \A x \in PrPaths : prDisk'[x].meta # "gone" => prDisk'[x].copy # 0
    BY <1>2, <1>3, <1>6 DEF PrIInv, PrCopiesAreOne
  <2>2. ASSUME NEW x \in PrPaths, NEW y \in PrPaths,
               prDisk'[x].copy = prDisk'[y].copy, prDisk'[x].copy # 0
        PROVE  x = y
    <3>1. x # en /\ y # en
      BY <1>3, <1>6, <2>2
    <3>2. CASE x = te \/ y = te
      BY <1>2, <1>3, <1>5, <1>6, <2>2, <3>1, <3>2
    <3>3. CASE x # te /\ y # te
      BY <1>3, <2>2, <3>1, <3>3 DEF PrIInv, PrCopiesAreOne
    <3>. QED
      BY <3>2, <3>3
  <2>3. ASSUME NEW t \in prSeen, NEW f \in PrEntries, t.path[2] = "entry"
        PROVE  prDisk'[<<f, "temp">>].copy # t.copy
    <3>1. t.copy \in 1..prCount
      BY PrCandidatesAre DEF PrIInv
    <3>2. CASE <<f, "temp">> = te
      BY <1>2, <1>3, <1>6, <3>1, <3>2
    <3>3. CASE <<f, "temp">> # te
      BY <1>1, <1>3, <2>3, <3>3 DEF PrIInv, PrCopiesAreOne
    <3>. QED
      BY <3>2, <3>3
  <2>. QED
    BY <1>8, <2>1, <2>2, <2>3 DEF PrCopiesAreOne
<1>10. ASSUME NEW t \in prSeen, prDisk[t.path].copy # t.copy
       PROVE  prDisk'[t.path].copy # t.copy
  <2>1. t.copy \in 1..prCount /\ t.path \in PrPaths
    BY PrCandidatesAre DEF PrIInv
  <2>. QED
    BY <1>2, <1>3, <1>6, <1>10, <2>1
<1>. QED
  BY <1>2, <1>7, <1>8, <1>9, <1>10, PrStoresKeep

LEMMA PrWriteMetaKeeps == ASSUME PrIInv, NEW e \in PrEntries, PrWriteMeta(e) PROVE PrIInv'
<1>. DEFINE te == <<e, "temp">>
            new == [copy |-> prDisk[te].copy, created |-> prNow + 1, meta |-> "there"]
<1>1. te \in PrPaths /\ \A f \in PrEntries : <<f, "temp">> \in PrPaths
  BY DEF PrPaths
<1>2. prCount \in Nat /\ prCount' = prCount /\ prNow \in 0..PrMaxTime /\ PrMaxTime \in Nat
  BY PrAssumption DEF PrIInv, PrPruneIsTyped, PrWriteMeta
<1>3. prDisk' = [prDisk EXCEPT ![te] = new] /\ prDisk[te].meta = "unwritten"
  BY DEF PrWriteMeta
<1>4. prDisk \in [PrPaths -> PrDirectories] /\ PrDirectories' = PrDirectories
  BY <1>2 DEF PrIInv, PrPruneIsTyped, PrDirectories
<1>5. new \in PrDirectories /\ new.copy = prDisk[te].copy /\ new.meta = "there"
  BY <1>1, <1>2, <1>4 DEF PrDirectories
<1>. HIDE DEF te, new
<1>6. prDisk' \in [PrPaths -> PrDirectories'] /\ \A x \in PrPaths : prDisk'[x].copy = prDisk[x].copy
  BY <1>1, <1>3, <1>4, <1>5
<1>7. prSeen' = prSeen /\ PrOther("stored")
  BY DEF PrWriteMeta, PrOther, prFound
<1>8. PrCopiesAreOne'
  <2>1. \A x \in PrPaths : prDisk'[x].meta # "gone" => prDisk'[x].copy # 0
    BY <1>1, <1>3, <1>4, <1>6 DEF PrIInv, PrCopiesAreOne
  <2>. QED
    BY <1>1, <1>6, <1>7, <2>1 DEF PrIInv, PrCopiesAreOne
<1>9. \A t \in prSeen : t.path \in PrPaths
  BY PrCandidatesAre DEF PrIInv
<1>10. prCount' \in 0..PrMaxCopies /\ prCount <= prCount'
  BY <1>2 DEF PrIInv, PrPruneIsTyped
<1>. QED
  BY <1>6, <1>7, <1>8, <1>9, <1>10, PrStoresKeep

LEMMA PrInstallKeeps == ASSUME PrIInv, NEW e \in PrEntries, PrInstall(e) PROVE PrIInv'
<1>. DEFINE en == <<e, "entry">>
            te == <<e, "temp">>
<1>1. /\ en \in PrPaths /\ te \in PrPaths /\ en # te /\ en[2] = "entry" /\ te[2] = "temp"
      /\ \A f \in PrEntries : <<f, "temp">> # en /\ <<f, "temp">> \in PrPaths
  BY DEF PrPaths
<1>2. prCount \in Nat /\ prCount' = prCount /\ prCount' \in 0..PrMaxCopies /\ prCount <= prCount'
  BY PrAssumption DEF PrIInv, PrPruneIsTyped, PrInstall
<1>3. /\ prDisk'[en] = prDisk[te] /\ prDisk'[te] = PrNothing
      /\ \A x \in PrPaths : x # en /\ x # te => prDisk'[x] = prDisk[x]
  BY <1>1 DEF PrInstall
<1>4. /\ PrNothing \in PrDirectories /\ PrNothing.copy = 0 /\ PrNothing.meta = "gone"
      /\ prDisk \in [PrPaths -> PrDirectories] /\ PrDirectories' = PrDirectories
  BY PrAssumption, <1>2 DEF PrNothing, PrIInv, PrPruneIsTyped, PrDirectories
<1>. HIDE DEF en, te
<1>5. prDisk' \in [PrPaths -> PrDirectories']
  <2>1. \A x \in PrPaths : prDisk'[x] \in PrDirectories'
    BY <1>1, <1>3, <1>4
  <2>2. prDisk' = [x \in PrPaths |-> prDisk'[x]]
    BY DEF PrInstall
  <2>. QED
    BY <2>1, <2>2
<1>6. prSeen' = prSeen /\ PrOther("stored")
  BY DEF PrInstall, PrOther, prFound
<1>7. PrCopiesAreOne'
  <2>1. \A x \in PrPaths : prDisk'[x].meta # "gone" => prDisk'[x].copy # 0
    BY <1>1, <1>3, <1>4 DEF PrIInv, PrCopiesAreOne
  <2>2. ASSUME NEW x \in PrPaths, NEW y \in PrPaths,
               prDisk'[x].copy = prDisk'[y].copy, prDisk'[x].copy # 0
        PROVE  x = y
    <3>1. x # te /\ y # te
      BY <1>3, <1>4, <2>2
    <3>. QED
      BY <1>1, <1>3, <2>2, <3>1 DEF PrIInv, PrCopiesAreOne
  <2>3. ASSUME NEW t \in prSeen, NEW f \in PrEntries, t.path[2] = "entry"
        PROVE  prDisk'[<<f, "temp">>].copy # t.copy
    <3>1. t.copy # 0
      BY PrCandidatesAre DEF PrIInv
    <3>. QED
      BY <1>1, <1>3, <1>4, <2>3, <3>1 DEF PrIInv, PrCopiesAreOne
  <2>. QED
    BY <1>6, <2>1, <2>2, <2>3 DEF PrCopiesAreOne
<1>8. ASSUME NEW t \in prSeen, prDisk[t.path].copy # t.copy
      PROVE  prDisk'[t.path].copy # t.copy
  <2>1. t.copy \in 1..prCount /\ t.path \in PrPaths
    BY PrCandidatesAre DEF PrIInv
  <2>2. CASE t.path = en
    <3>1. prDisk[te].copy # t.copy
      BY <1>1, <2>2 DEF PrIInv, PrCopiesAreOne, te
    <3>. QED
      BY <1>3, <2>2, <3>1
  <2>3. CASE t.path # en
    BY <1>3, <1>4, <1>8, <2>1, <2>3
  <2>. QED
    BY <2>2, <2>3
<1>. QED
  BY <1>2, <1>5, <1>6, <1>7, <1>8, PrStoresKeep

--------------------------------------------------------------------------------
(* The steps of the prune. *)

LEMMA PrSweepKeeps == ASSUME PrIInv, NEW l \in PrLimits, PrSweep(l) PROVE PrIInv'
<1>. USE DEF PrSweep, prDoing
<1>1. PrDiskShrinks
  BY PrSweepShrinks DEF PrIInv
<1>2. /\ prAt' = "walk" /\ prLeft' = PrPaths /\ prOthers' = "nothing" /\ prLimit' = l
      /\ prSince' = prNow
      /\ prNow' = prNow /\ prCount' = prCount /\ prSeen' = prSeen /\ prKept' = prKept
      /\ prTotal' = prTotal /\ prEvicted' = prEvicted /\ prRemoving' = prRemoving
  OBVIOUS
<1>3. prSeen = {} /\ prKept = {} /\ prEvicted = {} /\ prRemoving = {}
  BY DEF PrIInv, PrPruneIsTyped
<1>4. PrPruneIsTyped'
  <2>1. prNow \in Nat /\ l.age \subseteq Nat /\ l.size \subseteq Nat
    BY PrAssumption DEF PrIInv, PrPruneIsTyped
  <2>2. prDisk' \in [PrPaths -> PrDirectories]
    BY <1>1 DEF PrDiskShrinks
  <2>. QED
    BY <1>2, <1>3, <2>1, <2>2 DEF PrIInv, PrPruneIsTyped, PrCandidates, PrDirectories
<1>5. PrCopiesAreOne'
  BY <1>1, <1>2, PrShrinkingKeeps
<1>6. PrRemovedAreGone' /\ PrNothingIsMissed'
  BY <1>2 DEF PrRemovedAreGone, PrNothingIsMissed
<1>7. PrTotalIsOfKept' /\ PrEvictionsAreDue'
  BY <1>2, <1>3 DEF PrTotalIsOfKept, PrEvictionsAreDue
<1>. QED
  BY <1>4, <1>5, <1>6, <1>7 DEF PrIInv

LEMMA PrVisitKeeps == ASSUME PrIInv, NEW x \in PrPaths, PrVisit(x) PROVE PrIInv'
<1>. USE DEF PrVisit, prDoing, prDirs
<1>1. /\ prAt = "walk" /\ prDisk' = prDisk /\ prLeft' = prLeft \ {x}
      /\ UNCHANGED <<prNow, prCount, prAt, prLimit, prSince, prKept, prRemoving, prTotal,
                     prEvicted, prOthers>>
      /\ prSeen' = IF prDisk[x].meta = "there" THEN prSeen \cup {PrCandidate(x)} ELSE prSeen
  OBVIOUS
<1>2. prDisk[x] \in PrDirectories /\ prDisk[x].copy \in 0..prCount /\ prCount \in Nat
  BY PrAssumption DEF PrIInv, PrPruneIsTyped, PrDirectories
<1>3. /\ PrCandidate(x).path = x /\ PrCandidate(x).copy = prDisk[x].copy
      /\ (prDisk[x].meta = "there" => PrCandidate(x) \in PrCandidates)
  BY <1>2 DEF PrCandidate, PrCandidates, PrDirectories, PrIInv, PrCopiesAreOne
<1>4. PrPruneIsTyped'
  <2>1. IsFiniteSet(prSeen') /\ prSeen' \subseteq PrCandidates /\ prSeen \subseteq prSeen'
    BY <1>1, <1>3, FS_AddElement DEF PrIInv, PrPruneIsTyped
  <2>2. PrCandidates' = PrCandidates
    BY <1>1 DEF PrCandidates
  <2>. QED
    BY <1>1, <2>1, <2>2 DEF PrIInv, PrPruneIsTyped
<1>5. PrCopiesAreOne'
  <2>1. ASSUME NEW t \in prSeen', NEW e \in PrEntries, t.path[2] = "entry"
        PROVE  prDisk[<<e, "temp">>].copy # t.copy
    <3>1. CASE t \in prSeen
      BY <2>1, <3>1 DEF PrIInv, PrCopiesAreOne
    <3>2. CASE t = PrCandidate(x) /\ prDisk[x].meta = "there"
      <4>1. <<e, "temp">> \in PrPaths /\ <<e, "temp">> # x
        BY <1>3, <2>1, <3>2 DEF PrPaths
      <4>. QED
        BY <1>3, <3>2, <4>1 DEF PrIInv, PrCopiesAreOne
    <3>. QED
      BY <1>1, <3>1, <3>2
  <2>. QED
    BY <1>1, <2>1 DEF PrIInv, PrCopiesAreOne
<1>6. PrRemovedAreGone'
  BY <1>1 DEF PrRemovedAreGone
<1>7. PrNothingIsMissed'
  <2>1. \A y \in PrPaths : PrCandidate(y)' = PrCandidate(y)
    BY <1>1 DEF PrCandidate
  <2>. QED
    BY <1>1, <2>1 DEF PrIInv, PrNothingIsMissed
<1>8. PrTotalIsOfKept'
  BY <1>1 DEF PrTotalIsOfKept
<1>9. PrEvictionsAreDue'
  BY <1>1 DEF PrIInv, PrPruneIsTyped, PrEvictionsAreDue
<1>. QED
  BY <1>4, <1>5, <1>6, <1>7, <1>8, <1>9 DEF PrIInv

LEMMA PrWalkedKeeps == ASSUME PrIInv, PrWalked PROVE PrIInv'
<1>. USE DEF PrWalked, prDirs
<1>1. /\ prAt = "walk" /\ prAt' = "expire" /\ prLeft' = {} /\ prKept' = prSeen
      /\ prOthers = "stored" \/ \A x \in prLeft : prDisk[x] = PrNothing
      /\ UNCHANGED <<prNow, prDisk, prCount, prLimit, prSince, prSeen, prRemoving, prTotal,
                     prEvicted, prOthers>>
  OBVIOUS
<1>2. prRemoving = {} /\ prEvicted = {}
  BY <1>1 DEF PrIInv, PrPruneIsTyped
<1>3. PrPruneIsTyped'
  BY <1>1, <1>2 DEF PrIInv, PrPruneIsTyped, PrCandidates
<1>4. PrCopiesAreOne'
  BY <1>1 DEF PrIInv, PrCopiesAreOne
<1>5. PrRemovedAreGone'
  BY <1>1 DEF PrRemovedAreGone
<1>6. PrNothingIsMissed'
  <2>1. \A x \in PrPaths : PrCandidate(x)' = PrCandidate(x)
    BY <1>1 DEF PrCandidate
  <2>2. PrNothing.meta = "gone"
    BY DEF PrNothing
  <2>. QED
    BY <1>1, <2>1, <2>2 DEF PrIInv, PrNothingIsMissed
<1>7. PrTotalIsOfKept' /\ PrEvictionsAreDue'
  BY <1>1, <1>2 DEF PrTotalIsOfKept, PrEvictionsAreDue
<1>. QED
  BY <1>3, <1>4, <1>5, <1>6, <1>7 DEF PrIInv

LEMMA PrFailsKeeps == ASSUME PrIInv, PrFails PROVE PrIInv'
<1>. USE DEF PrFails, prDirs
<1>1. /\ prAt' = "failed" /\ prLeft' = {} /\ prSeen' = {} /\ prKept' = {} /\ prEvicted' = {}
      /\ prRemoving' = {}
      /\ UNCHANGED <<prNow, prDisk, prCount, prLimit, prSince, prTotal, prOthers>>
  OBVIOUS
<1>2. PrPruneIsTyped'
  BY <1>1, FS_EmptySet DEF PrIInv, PrPruneIsTyped
<1>3. PrCopiesAreOne' /\ PrRemovedAreGone' /\ PrNothingIsMissed'
  BY <1>1 DEF PrIInv, PrCopiesAreOne, PrRemovedAreGone, PrNothingIsMissed
<1>4. PrTotalIsOfKept' /\ PrEvictionsAreDue'
  BY <1>1 DEF PrTotalIsOfKept, PrEvictionsAreDue
<1>. QED
  BY <1>2, <1>3, <1>4 DEF PrIInv

(* What PrRemove leaves to show: the prune's own account. *)
LEMMA PrRemoveKeeps ==
    ASSUME PrIInv, NEW s \in prKept, PrRemove(s), prAt \in {"expire", "evict"},
           prEvicted' \subseteq prSeen, prEvicted' # {} => prAt = "evict"
    PROVE  /\ PrPruneIsTyped' /\ PrCopiesAreOne' /\ PrRemovedAreGone' /\ PrNothingIsMissed'
           /\ PrTotalIsOfKept'
<1>. USE DEF PrRemove, prFound
<1>1. s \in prSeen
  BY DEF PrIInv, PrPruneIsTyped
<1>2. PrDiskShrinks
  BY <1>1, PrRemoveShrinks DEF PrIInv
<1>3. /\ prRemoving' = {s}
      /\ UNCHANGED <<prNow, prCount, prAt, prLimit, prSince, prLeft, prSeen, prKept, prTotal,
                     prOthers>>
  OBVIOUS
<1>4. PrPruneIsTyped'
  <2>1. prDisk' \in [PrPaths -> PrDirectories]
    BY <1>2 DEF PrDiskShrinks
  <2>. QED
    BY <1>3, <2>1 DEF PrIInv, PrPruneIsTyped, PrCandidates, PrDirectories
<1>5. PrCopiesAreOne'
  BY <1>2, <1>3, PrShrinkingKeeps
<1>6. PrRemovedAreGone'
  BY <1>2, <1>3, PrShrinkingKeeps DEF PrIInv, PrRemovedAreGone
<1>7. PrNothingIsMissed'
  BY <1>2, <1>3, PrShrinkingKeeps DEF PrIInv, PrNothingIsMissed
<1>8. PrTotalIsOfKept'
  BY <1>3 DEF PrIInv, PrTotalIsOfKept, PrBytes, PrExpired, PrTooMuch
<1>. QED
  BY <1>4, <1>5, <1>6, <1>7, <1>8

LEMMA PrExpireKeeps == ASSUME PrIInv, NEW s \in prKept, PrExpire(s) PROVE PrIInv'
<1>1. PrRemove(s) /\ prAt = "expire" /\ prEvicted' = prEvicted /\ prEvicted = {}
  BY DEF PrExpire, PrIInv, PrPruneIsTyped
<1>2. PrEvictionsAreDue'
  BY <1>1 DEF PrEvictionsAreDue
<1>. QED
  BY <1>1, <1>2, PrRemoveKeeps DEF PrIInv

LEMMA PrExpiredGoneKeeps == ASSUME PrIInv, PrExpiredGone PROVE PrIInv'
<1>. USE DEF PrExpiredGone, prDirs, prFound
<1>1. /\ prAt = "expire" /\ prAt' = "evict" /\ prTotal' = PrBytes(prKept)
      /\ \A s \in prKept : ~PrExpired(s)
      /\ UNCHANGED <<prNow, prDisk, prCount, prLimit, prSince, prLeft, prSeen, prKept,
                     prRemoving, prEvicted, prOthers>>
  OBVIOUS
<1>2. prRemoving = {} /\ prEvicted = {}
  BY <1>1 DEF PrIInv, PrPruneIsTyped
<1>3. PrBytes(prKept) \in Nat
  <2>1. IsFiniteSet(prSeen) /\ prKept \subseteq prSeen /\ \A s \in prSeen : s.path \in PrPaths
    BY PrCandidatesAre DEF PrIInv, PrPruneIsTyped
  <2>. QED
    BY <2>1, PrBytesOfPart
<1>4. PrPruneIsTyped'
  BY <1>1, <1>2, <1>3 DEF PrIInv, PrPruneIsTyped, PrCandidates
<1>5. PrCopiesAreOne' /\ PrRemovedAreGone' /\ PrNothingIsMissed'
  BY <1>1 DEF PrIInv, PrCopiesAreOne, PrRemovedAreGone, PrNothingIsMissed, PrCandidate
<1>6. PrTotalIsOfKept'
  BY <1>1 DEF PrTotalIsOfKept, PrBytes, PrExpired
<1>7. PrEvictionsAreDue'
  BY <1>1, <1>2 DEF PrEvictionsAreDue
<1>. QED
  BY <1>4, <1>5, <1>6, <1>7 DEF PrIInv

(* What is as old as the oldest kept, among what was seen, holds all that is kept. *)
LEMMA PrEvictKeeps == ASSUME PrIInv, NEW s \in prKept, PrEvict(s) PROVE PrIInv'
<1>1. /\ PrRemove(s) /\ prAt = "evict" /\ prEvicted' = prEvicted \cup {s}
      /\ \A t \in prKept : s.created <= t.created
  BY DEF PrEvict, PrOldest
<1>2. UNCHANGED <<prSeen, prKept, prLimit>> /\ s \in prSeen
  BY <1>1 DEF PrRemove, prFound, PrIInv, PrPruneIsTyped
<1>3. \E size \in prLimit.size : PrBytes({t \in prSeen : t.created >= s.created}) > size
  <2>. DEFINE Others == {t \in prSeen : t.created >= s.created}
  <2>1. PICK size \in prLimit.size : prTotal > size /\ size \in Nat
    BY DEF PrEvict, PrTooMuch, PrIInv, PrPruneIsTyped
  <2>2. prKept \subseteq Others
    <3>1. \A t \in prKept : t \in prSeen /\ t.created \in Int
      BY PrAssumption, PrCandidatesAre DEF PrIInv, PrPruneIsTyped
    <3>2. s.created \in Int
      BY <3>1
    <3>. QED
      BY <1>1, <3>1, <3>2
  <2>3. IsFiniteSet(Others) /\ \A t \in Others : t.path \in PrPaths
    <3>1. IsFiniteSet(prSeen) /\ Others \subseteq prSeen
      BY DEF PrIInv, PrPruneIsTyped
    <3>2. \A t \in prSeen : t.path \in PrPaths
      BY PrCandidatesAre DEF PrIInv
    <3>. QED
      BY <3>1, <3>2, FS_Subset
  <2>4. prTotal = PrBytes(prKept)
    BY <1>1 DEF PrIInv, PrTotalIsOfKept
  <2>. HIDE DEF Others
  <2>5. PrBytes(Others) \in Nat /\ PrBytes(prKept) \in Nat /\ PrBytes(prKept) <= PrBytes(Others)
    BY <2>2, <2>3, PrBytesOfPart
  <2>6. PrBytes(Others) > size
    BY <2>1, <2>4, <2>5
  <2>. QED
    BY <2>6 DEF Others
<1>4. PrEvictionsAreDue'
  <2>1. ASSUME NEW u \in prEvicted'
        PROVE  /\ \A t \in prKept : u.created <= t.created
               /\ \E size \in prLimit.size : PrBytes({t \in prSeen : t.created >= u.created}) > size
    BY <1>1, <1>3 DEF PrIInv, PrEvictionsAreDue
  <2>. QED
    BY <1>2, <2>1 DEF PrEvictionsAreDue, PrBytes
<1>5. prEvicted' \subseteq prSeen
  BY <1>1, <1>2 DEF PrIInv, PrPruneIsTyped
<1>. QED
  BY <1>1, <1>4, <1>5, PrRemoveKeeps DEF PrIInv

LEMMA PrRemovedKeeps == ASSUME PrIInv, NEW s \in prKept, PrRemoved(s) PROVE PrIInv'
<1>. USE DEF PrRemoved, prFound
<1>1. /\ prRemoving' = {} /\ prKept' = prKept \ {s}
      /\ prTotal' = IF prAt = "evict" THEN prTotal - PrSize[s.path[1]] ELSE prTotal
      /\ UNCHANGED <<prNow, prCount, prAt, prLimit, prSince, prLeft, prSeen, prEvicted, prOthers>>
  OBVIOUS
<1>2. PrDiskShrinks /\ prDisk' = [prDisk EXCEPT ![s.path] = PrNothing]
  BY PrRemovedShrinks DEF PrIInv
<1>3. /\ prAt \in {"expire", "evict"} /\ s \in prSeen /\ s.path \in PrPaths
      /\ s.copy # 0 /\ prDisk'[s.path] = PrNothing
      /\ \A x \in PrPaths : x # s.path => prDisk'[x] = prDisk[x]
  <2>1. prAt \in {"expire", "evict"} /\ s \in prSeen
    BY DEF PrIInv, PrPruneIsTyped
  <2>2. s.path \in PrPaths /\ s.copy # 0
    BY <2>1, PrCandidatesAre DEF PrIInv
  <2>. QED
    BY <1>2, <2>1, <2>2 DEF PrIInv, PrPruneIsTyped
<1>4. PrNothing.copy = 0 /\ PrNothing.meta = "gone"
  BY DEF PrNothing
<1>5. /\ PrBytes(prKept \ {s}) \in Nat
      /\ PrBytes(prKept \ {s}) = PrBytes(prKept) - PrSize[s.path[1]]
  <2>1. IsFiniteSet(prKept) /\ \A t \in prKept : t.path \in PrPaths
    BY PrCandidatesAre, FS_Subset DEF PrIInv, PrPruneIsTyped
  <2>. QED
    BY <2>1, PrBytesWithout
<1>6. prAt = "evict" => prTotal' = PrBytes(prKept')
  BY <1>1, <1>5 DEF PrIInv, PrTotalIsOfKept
<1>7. PrPruneIsTyped'
  <2>1. prTotal' \in Nat
    BY <1>1, <1>3, <1>5, <1>6 DEF PrIInv, PrPruneIsTyped
  <2>2. prDisk' \in [PrPaths -> PrDirectories]
    BY <1>2 DEF PrDiskShrinks
  <2>. QED
    BY <1>1, <2>1, <2>2 DEF PrIInv, PrPruneIsTyped, PrCandidates, PrDirectories
<1>8. PrCopiesAreOne'
  BY <1>1, <1>2, PrShrinkingKeeps
<1>9. PrRemovedAreGone'
  <2>1. ASSUME NEW t \in prSeen, t \notin prKept \ {s} PROVE prDisk'[t.path].copy # t.copy
    <3>1. CASE t = s
      BY <1>3, <1>4, <3>1
    <3>2. CASE t # s
      BY <1>2, <1>3, <2>1, <3>2, PrShrinkingKeeps DEF PrIInv, PrRemovedAreGone
    <3>. QED
      BY <3>1, <3>2
  <2>. QED
    BY <1>1, <2>1 DEF PrRemovedAreGone
<1>10. PrNothingIsMissed'
  <2>1. ASSUME prOthers # "stored", NEW x \in PrPaths, prDisk'[x].meta = "there"
        PROVE  PrCandidate(x)' \in prKept'
    <3>1. prDisk[x].meta = "there" /\ PrCandidate(x)' = PrCandidate(x)
      BY <1>2, <2>1, PrShrinkingKeeps
    <3>2. PrCandidate(x) \in prKept
      BY <1>3, <2>1, <3>1 DEF PrIInv, PrNothingIsMissed
    <3>3. PrCandidate(x) # s
      BY <1>3, <1>4, <2>1 DEF PrCandidate
    <3>. QED
      BY <1>1, <3>1, <3>2, <3>3
  <2>. QED
    BY <1>1, <1>3, <2>1 DEF PrNothingIsMissed
<1>11. PrTotalIsOfKept'
  <2>1. \A t \in prKept' : PrExpired(t)' = PrExpired(t)
    BY <1>1 DEF PrExpired
  <2>. QED
    BY <1>1, <1>3, <1>6, <2>1 DEF PrIInv, PrTotalIsOfKept, PrBytes, PrExpired
<1>12. PrEvictionsAreDue'
  BY <1>1 DEF PrIInv, PrEvictionsAreDue, PrBytes
<1>. QED
  BY <1>7, <1>8, <1>9, <1>10, <1>11, <1>12 DEF PrIInv

LEMMA PrDoneKeeps == ASSUME PrIInv, PrDone PROVE PrIInv'
<1>. USE DEF PrDone, prDirs, prFound, prDoing
<1>1. /\ prAt = "evict" /\ prAt' = "done" /\ prRemoving = {} /\ ~PrTooMuch
      /\ UNCHANGED <<prNow, prDisk, prCount, prLimit, prSince, prLeft, prSeen, prKept,
                     prRemoving, prTotal, prEvicted, prOthers>>
  OBVIOUS
<1>2. PrPruneIsTyped'
  BY <1>1 DEF PrIInv, PrPruneIsTyped, PrCandidates
<1>3. PrCopiesAreOne' /\ PrRemovedAreGone' /\ PrNothingIsMissed'
  BY <1>1 DEF PrIInv, PrCopiesAreOne, PrRemovedAreGone, PrNothingIsMissed, PrCandidate
<1>4. PrTotalIsOfKept'
  BY <1>1 DEF PrIInv, PrTotalIsOfKept, PrBytes, PrExpired, PrTooMuch
<1>5. PrEvictionsAreDue'
  BY <1>1 DEF PrIInv, PrEvictionsAreDue, PrBytes
<1>. QED
  BY <1>2, <1>3, <1>4, <1>5 DEF PrIInv

--------------------------------------------------------------------------------
(* What a prune leaves. *)

LEMMA PrInitEstablishes == ASSUME PrInit PROVE PrIInv
<1>. USE DEF PrInit
<1>1. PrPruneIsTyped
  <2>1. PrNothing \in [copy : 0..0, created : 0..PrMaxTime + 1,
                       meta : {"unwritten", "there", "gone"}]
    BY PrAssumption DEF PrNothing
  <2>. QED
    BY <2>1, PrAssumption, FS_EmptySet DEF PrPruneIsTyped
<1>2. PrCopiesAreOne
  BY DEF PrCopiesAreOne, PrNothing
<1>3. PrRemovedAreGone /\ PrNothingIsMissed /\ PrTotalIsOfKept /\ PrEvictionsAreDue
  BY DEF PrRemovedAreGone, PrNothingIsMissed, PrTotalIsOfKept, PrEvictionsAreDue
<1>. QED
  BY <1>1, <1>2, <1>3 DEF PrIInv

LEMMA PrNextKeeps == ASSUME PrIInv, [PrNext]_prVars PROVE PrIInv'
<1>1. CASE PrTick
  BY <1>1, PrTickKeeps
<1>2. CASE \E e \in PrEntries : PrStore(e)
  BY <1>2, PrStoreKeeps
<1>3. CASE \E e \in PrEntries : PrWriteMeta(e)
  BY <1>3, PrWriteMetaKeeps
<1>4. CASE \E e \in PrEntries : PrInstall(e)
  BY <1>4, PrInstallKeeps
<1>5. CASE \E S \in {PrPaths} \cup {{x} : x \in PrPaths} : PrOthersRemove(S)
  BY <1>5, PrOthersRemoveKeeps
<1>6. CASE \E l \in PrLimits : PrSweep(l)
  BY <1>6, PrSweepKeeps
<1>7. CASE \E x \in PrPaths : PrVisit(x)
  BY <1>7, PrVisitKeeps
<1>8. CASE PrWalked
  BY <1>8, PrWalkedKeeps
<1>9. CASE PrFails
  BY <1>9, PrFailsKeeps
<1>10. CASE \E s \in prKept : PrExpire(s)
  BY <1>10, PrExpireKeeps
<1>11. CASE PrExpiredGone
  BY <1>11, PrExpiredGoneKeeps
<1>12. CASE \E s \in prKept : PrEvict(s)
  BY <1>12, PrEvictKeeps
<1>13. CASE \E s \in prKept : PrRemoved(s)
  BY <1>13, PrRemovedKeeps
<1>14. CASE PrDone
  BY <1>14, PrDoneKeeps
<1>15. CASE UNCHANGED prVars
  <2>1. UNCHANGED <<prNow, prDisk, prCount, prAt, prLimit, prSince, prLeft, prSeen, prKept,
                    prRemoving, prTotal, prEvicted, prOthers>>
    BY <1>15 DEF prVars, prDirs, prFound, prDoing
  <2>2. PrPruneIsTyped'
    BY <2>1 DEF PrIInv, PrPruneIsTyped, PrCandidates
  <2>3. PrCopiesAreOne' /\ PrRemovedAreGone' /\ PrNothingIsMissed'
    BY <2>1 DEF PrIInv, PrCopiesAreOne, PrRemovedAreGone, PrNothingIsMissed, PrCandidate
  <2>4. PrTotalIsOfKept' /\ PrEvictionsAreDue'
    BY <2>1, PrAccountStays
  <2>. QED
    BY <2>2, <2>3, <2>4 DEF PrIInv
<1>. QED
  BY <1>1, <1>2, <1>3, <1>4, <1>5, <1>6, <1>7, <1>8, <1>9, <1>10, <1>11, <1>12, <1>13,
     <1>14, <1>15 DEF PrNext

LEMMA PrAlways == PrSpec => []PrIInv
BY PrInitEstablishes, PrNextKeeps, PTL DEF PrSpec

LEMMA PrIInvImpliesTypes == ASSUME PrIInv PROVE PrTypeOK
<1>1. /\ prDisk \in [PrPaths -> [copy : 0..prCount, created : 0..PrMaxTime + 1,
                                  meta : {"unwritten", "there", "gone"}]]
      /\ prCount \in 0..PrMaxCopies
      /\ prAt \in {"idle", "walk", "expire", "evict", "done", "failed"}
      /\ prRemoving \subseteq prKept /\ prKept \subseteq prSeen /\ prEvicted \subseteq prSeen
      /\ prTotal \in Nat
  BY DEF PrIInv, PrPruneIsTyped
<1>2. 0..prCount \subseteq 0..PrMaxCopies
  BY <1>1, PrAssumption
<1>. QED
  BY <1>1, <1>2 DEF PrTypeOK

LEMMA PrIInvImpliesSafety == ASSUME PrIInv PROVE PrSafety
<1>1. PrCacheIsWithin
  <2>. SUFFICES ASSUME prAt = "done", prOthers # "stored"
                PROVE  /\ \A s \in PrOnDisk, age \in prLimit.age : s.created + age >= prSince + 1
                       /\ \A size \in prLimit.size : PrBytes(PrOnDisk) <= size
    BY DEF PrCacheIsWithin
  <2>1. PrOnDisk \subseteq prKept
    BY DEF PrIInv, PrNothingIsMissed, PrOnDisk
  <2>2. /\ IsFiniteSet(prKept)
        /\ \A t \in prKept : t.path \in PrPaths /\ t.created \in 0..PrMaxTime + 1
    BY PrCandidatesAre, FS_Subset DEF PrIInv, PrPruneIsTyped
  <2>3. /\ prTotal = PrBytes(prKept) /\ (\A s \in prKept : ~PrExpired(s)) /\ ~PrTooMuch
        /\ prLimit.age \subseteq Nat /\ prLimit.size \subseteq Nat /\ prSince \in Nat
    BY DEF PrIInv, PrPruneIsTyped, PrTotalIsOfKept
  <2>4. PrBytes(PrOnDisk) \in Nat /\ PrBytes(prKept) \in Nat /\ PrBytes(PrOnDisk) <= PrBytes(prKept)
    BY <2>1, <2>2, PrBytesOfPart
  <2>5. ASSUME NEW s \in PrOnDisk, NEW age \in prLimit.age
        PROVE  s.created + age >= prSince + 1
    <3>1. s.created \in Nat /\ age \in Nat
      BY <2>1, <2>2, <2>3, PrAssumption
    <3>2. ~(prSince + 1 > s.created + age)
      BY <2>1, <2>3 DEF PrExpired
    <3>. QED
      BY <2>3, <3>1, <3>2
  <2>6. ASSUME NEW size \in prLimit.size PROVE PrBytes(PrOnDisk) <= size
    <3>1. ~(prTotal > size) /\ size \in Nat
      BY <2>3 DEF PrTooMuch
    <3>. QED
      BY <2>3, <2>4, <3>1
  <2>. QED
    BY <2>5, <2>6
<1>2. PrEvictsTheOldest
  <2>1. ASSUME NEW s \in prEvicted, NEW t \in prSeen, t.created < s.created
        PROVE  prDisk[t.path].copy # t.copy
    <3>1. s.created \in Int /\ t.created \in Int
      BY PrCandidatesAre, PrAssumption DEF PrIInv, PrPruneIsTyped
    <3>2. t \notin prKept
      BY <2>1, <3>1 DEF PrIInv, PrEvictionsAreDue
    <3>3. prAt \in {"evict", "done"}
      BY DEF PrIInv, PrPruneIsTyped
    <3>. QED
      BY <3>2, <3>3 DEF PrIInv, PrRemovedAreGone
  <2>. QED
    BY <2>1 DEF PrIInv, PrEvictionsAreDue, PrEvictsTheOldest
<1>. QED
  BY <1>1, <1>2 DEF PrSafety

--------------------------------------------------------------------------------
(* Entries of named tasks. *)

NePlaces == NeAtRest \cup {"unpack", "temp", "unpacking", "install", "placing", "read", "run",
                           "check", "replace", "rename"}
NeOuts == [NeIndexes -> NeProcs \cup {"none"}]
NeIsWhole(outs) == \A i \in NeIndexes : outs[i] \notin {"none", "damaged"}

NeIsTyped ==
    /\ neAt \in [NeProcs -> NePlaces]
    /\ neTemps \subseteq NeProcs
    /\ neOut \in NeOuts /\ neHeld \in [NeProcs -> NeOuts]
    /\ neIndex \in [NeProcs -> NeIndexes]
    /\ DOMAIN neText = NeProcs
    /\ neDamages \in 0..NeMaxDamages

(* Until two processes have been at work, one is. *)
NeOneIsAtWork == ~neOverlap => \A p, q \in NeBusy : p = q

(* An entry is the work of a process that has ended well, and holds what that
   process held, unless it is damaged. *)
NeEntryIsOfItsStore ==
    neEntry = NeNoEntry \/
        /\ neEntry.text \in NeProcs /\ neAt[neEntry.text] = "stored"
        /\ neEntry.sound => neEntry.outs = neHeld[neEntry.text] /\ NeIsWhole(neEntry.outs)

(* What is being stored or restored is whole; *)
NeHeldIsWhole ==
    \A p \in NeProcs :
        neAt[p] \in {"install", "placing", "read", "replace", "rename"} => NeIsWhole(neHeld[p])

(* what a restore is about to find has not been damaged since it looked, *)
NeRestoresFindNoDamage ==
    \A p \in NeProcs :
        neAt[p] \in {"unpack", "temp", "unpacking"} => neEntry = NeNoEntry \/ neEntry.sound

(* and one that is alone has put in place what it has been through. *)
NeRestoreIsOfTheEntry ==
    ~neOverlap => \A p \in NeProcs :
        /\ neAt[p] \in {"unpack", "temp", "unpacking", "install", "placing", "read"} =>
              neEntry # NeNoEntry /\ neEntry.sound
        /\ neAt[p] \in {"install", "placing"} =>
              /\ neHeld[p] = neEntry.outs
              /\ \A i \in NeIndexes : i < neIndex[p] => neOut[i] = neHeld[p][i]
        /\ neAt[p] = "read" => neOut = neHeld[p] /\ neHeld[p] = neEntry.outs
        /\ neAt[p] = "hit" => neText[p] \in NeProcs

NeIInv ==
    /\ NeIsTyped
    /\ NeOneIsAtWork
    /\ NeEntryIsOfItsStore
    /\ NeHeldIsWhole
    /\ NeRestoresFindNoDamage
    /\ NeRestoreIsOfTheEntry

(* A process at work that goes on. *)
LEMMA NeOnTheWay ==
    ASSUME NeIInv, NEW p \in NeProcs, NEW next \in NePlaces, neAt[p] \notin NeAtRest,
           NeGo(p, next), neOverlap' = neOverlap
    PROVE  /\ neAt' \in [NeProcs -> NePlaces] /\ neAt'[p] = next
           /\ \A q \in NeProcs : q # p => neAt'[q] = neAt[q]
           /\ NeOneIsAtWork'
           /\ \A q \in NeProcs : q # p /\ ~neOverlap => neAt[q] \in NeAtRest
           /\ neAt[p] # "stored"
<1>1. /\ neAt' \in [NeProcs -> NePlaces] /\ neAt'[p] = next
      /\ \A q \in NeProcs : q # p => neAt'[q] = neAt[q]
  BY DEF NeIInv, NeIsTyped, NeGo
<1>2. NeBusy' \subseteq NeBusy /\ p \in NeBusy
  BY <1>1 DEF NeBusy
<1>3. NeOneIsAtWork'
  BY <1>2 DEF NeIInv, NeOneIsAtWork
<1>4. \A q \in NeProcs : q # p /\ ~neOverlap => neAt[q] \in NeAtRest
  BY <1>2 DEF NeIInv, NeOneIsAtWork, NeBusy
<1>5. neAt[p] # "stored"
  BY DEF NeAtRest
<1>. QED
  BY <1>1, <1>3, <1>4, <1>5

(* One that moves nothing but itself and its directory. *)
LEMMA NeMoves ==
    ASSUME NeIInv, NEW p \in NeProcs, NEW next \in NePlaces, neAt[p] \notin NeAtRest,
           NeGo(p, next), neTemps' \subseteq NeProcs,
           UNCHANGED <<neEntry, neOut, neHeld, neIndex, neText, neOverlap, neDamages>>,
           next \in {"run", "temp", "unpacking", "failed", "dead", "stored"},
           next \in {"temp", "unpacking"} => neAt[p] \in {"unpack", "temp"}
    PROVE  NeIInv'
<1>1. /\ neAt' \in [NeProcs -> NePlaces] /\ neAt'[p] = next
      /\ \A q \in NeProcs : q # p => neAt'[q] = neAt[q]
      /\ NeOneIsAtWork' /\ neAt[p] # "stored"
  BY NeOnTheWay
<1>2. NeIsTyped'
  BY <1>1 DEF NeIInv, NeIsTyped, NeOuts, NeIndexes
<1>3. NeEntryIsOfItsStore'
  BY <1>1 DEF NeIInv, NeEntryIsOfItsStore, NeIsWhole, NeNoEntry, NeNone
<1>4. NeHeldIsWhole'
  BY <1>1 DEF NeIInv, NeHeldIsWhole, NeIsWhole
<1>5. NeRestoresFindNoDamage'
  BY <1>1 DEF NeIInv, NeRestoresFindNoDamage
<1>6. NeRestoreIsOfTheEntry'
  BY <1>1 DEF NeIInv, NeRestoreIsOfTheEntry
<1>. QED
  BY <1>1, <1>2, <1>3, <1>4, <1>5, <1>6 DEF NeIInv

LEMMA NeLookKeeps == ASSUME NeIInv, NEW p \in NeProcs, NeLook(p) PROVE NeIInv'
<1>. DEFINE next == IF NeValid THEN "unpack" ELSE "run"
<1>1. /\ neAt[p] = "idle" /\ NeGo(p, next) /\ neOverlap' = (neOverlap \/ NeBusy # {})
      /\ UNCHANGED <<neEntry, neTemps, neOut, neHeld, neIndex, neText, neDamages>>
  BY DEF NeLook
<1>2. /\ next \in NePlaces /\ (next = "unpack" => neEntry.sound) /\ next \in {"unpack", "run"}
  BY DEF NePlaces, NeValid
<1>. HIDE DEF next
<1>3. /\ neAt' \in [NeProcs -> NePlaces] /\ neAt'[p] = next
      /\ \A q \in NeProcs : q # p => neAt'[q] = neAt[q]
  BY <1>1, <1>2 DEF NeIInv, NeIsTyped, NeGo
<1>4. ~neOverlap' => ~neOverlap /\ NeBusy = {}
  BY <1>1
<1>5. ~neOverlap' => \A q \in NeProcs : q # p => neAt[q] \in NeAtRest
  BY <1>4 DEF NeBusy
<1>6. NeIsTyped'
  BY <1>1, <1>3 DEF NeIInv, NeIsTyped, NeOuts, NeIndexes
<1>7. NeOneIsAtWork'
  BY <1>3, <1>5 DEF NeOneIsAtWork, NeBusy
<1>8. NeEntryIsOfItsStore'
  BY <1>1, <1>3 DEF NeIInv, NeEntryIsOfItsStore, NeIsWhole, NeNoEntry, NeNone
<1>9. NeHeldIsWhole'
  BY <1>1, <1>2, <1>3 DEF NeIInv, NeHeldIsWhole, NeIsWhole
<1>10. NeRestoresFindNoDamage'
  BY <1>1, <1>2, <1>3 DEF NeIInv, NeRestoresFindNoDamage
<1>11. NeRestoreIsOfTheEntry'
  <2>1. NeNoEntry.sound = FALSE
    BY DEF NeNoEntry
  <2>2. next = "unpack" => neEntry.sound /\ neEntry # NeNoEntry
    BY <1>2, <2>1
  <2>. QED
    BY <1>1, <1>2, <1>3, <1>4, <2>2 DEF NeIInv, NeRestoreIsOfTheEntry
<1>. QED
  BY <1>6, <1>7, <1>8, <1>9, <1>10, <1>11 DEF NeIInv

LEMMA NeUnpackKeeps == ASSUME NeIInv, NEW p \in NeProcs, NeUnpack(p) PROVE NeIInv'
<1>1. /\ neAt[p] = "unpacking" /\ neEntry # NeNoEntry /\ NeGo(p, "install")
      /\ neHeld' = [neHeld EXCEPT ![p] = neEntry.outs] /\ neIndex' = [neIndex EXCEPT ![p] = 1]
      /\ UNCHANGED <<neEntry, neTemps, neOut, neText, neOverlap, neDamages>>
  BY DEF NeUnpack
<1>2. "install" \in NePlaces /\ neAt[p] \notin NeAtRest
  BY <1>1 DEF NePlaces, NeAtRest
<1>3. /\ neAt' \in [NeProcs -> NePlaces] /\ neAt'[p] = "install"
      /\ \A q \in NeProcs : q # p => neAt'[q] = neAt[q]
      /\ NeOneIsAtWork' /\ neAt[p] # "stored"
      /\ \A q \in NeProcs : q # p /\ ~neOverlap => neAt[q] \in NeAtRest
  BY <1>1, <1>2, NeOnTheWay
<1>4. /\ neEntry.sound /\ neEntry.text \in NeProcs /\ neAt[neEntry.text] = "stored"
      /\ neEntry.outs = neHeld[neEntry.text] /\ NeIsWhole(neEntry.outs)
  BY <1>1 DEF NeIInv, NeRestoresFindNoDamage, NeEntryIsOfItsStore
<1>5. /\ neHeld \in [NeProcs -> NeOuts] /\ neIndex \in [NeProcs -> NeIndexes] /\ 1 \in NeIndexes
      /\ neEntry.outs \in NeOuts
  BY <1>4, NeAssumption DEF NeIInv, NeIsTyped, NeIndexes
<1>6. /\ neHeld' \in [NeProcs -> NeOuts] /\ neIndex' \in [NeProcs -> NeIndexes]
      /\ neHeld'[p] = neEntry.outs /\ neIndex'[p] = 1
      /\ \A q \in NeProcs : q # p => neHeld'[q] = neHeld[q] /\ neIndex'[q] = neIndex[q]
  BY <1>1, <1>5
<1>7. NeIsTyped'
  BY <1>1, <1>3, <1>6 DEF NeIInv, NeIsTyped, NeOuts, NeIndexes
<1>8. NeEntryIsOfItsStore'
  BY <1>1, <1>3, <1>4, <1>6 DEF NeEntryIsOfItsStore, NeIsWhole
<1>9. NeHeldIsWhole'
  BY <1>3, <1>4, <1>6 DEF NeIInv, NeHeldIsWhole, NeIsWhole
<1>10. NeRestoresFindNoDamage'
  BY <1>1, <1>3 DEF NeIInv, NeRestoresFindNoDamage
<1>11. NeRestoreIsOfTheEntry'
  <2>1. \A i \in NeIndexes : ~(i < 1)
    BY DEF NeIndexes
  <2>. QED
    BY <1>1, <1>3, <1>4, <1>6, <2>1 DEF NeIInv, NeRestoreIsOfTheEntry, NeAtRest
<1>. QED
  BY <1>3, <1>7, <1>8, <1>9, <1>10, <1>11 DEF NeIInv

LEMMA NeRemoveOutputKeeps == ASSUME NeIInv, NEW p \in NeProcs, NeRemoveOutput(p) PROVE NeIInv'
<1>1. /\ neAt[p] = "install" /\ NeGo(p, "placing")
      /\ neOut' = [neOut EXCEPT ![neIndex[p]] = "none"]
      /\ UNCHANGED <<neEntry, neTemps, neHeld, neIndex, neText, neOverlap, neDamages>>
  BY DEF NeRemoveOutput
<1>2. "placing" \in NePlaces /\ neAt[p] \notin NeAtRest
  BY <1>1 DEF NePlaces, NeAtRest
<1>3. /\ neAt' \in [NeProcs -> NePlaces] /\ neAt'[p] = "placing"
      /\ \A q \in NeProcs : q # p => neAt'[q] = neAt[q]
      /\ NeOneIsAtWork' /\ neAt[p] # "stored"
      /\ \A q \in NeProcs : q # p /\ ~neOverlap => neAt[q] \in NeAtRest
  BY <1>1, <1>2, NeOnTheWay
<1>4. /\ neOut \in NeOuts /\ neIndex[p] \in NeIndexes
      /\ neOut' \in NeOuts /\ \A i \in NeIndexes : i # neIndex[p] => neOut'[i] = neOut[i]
  BY <1>1 DEF NeIInv, NeIsTyped, NeOuts
<1>5. NeIsTyped'
  BY <1>1, <1>3, <1>4 DEF NeIInv, NeIsTyped, NeOuts, NeIndexes
<1>6. NeEntryIsOfItsStore'
  BY <1>1, <1>3 DEF NeIInv, NeEntryIsOfItsStore, NeIsWhole
<1>7. NeHeldIsWhole'
  BY <1>1, <1>3 DEF NeIInv, NeHeldIsWhole, NeIsWhole
<1>8. NeRestoresFindNoDamage'
  BY <1>1, <1>3 DEF NeIInv, NeRestoresFindNoDamage
<1>9. NeRestoreIsOfTheEntry'
  <2>1. \A i \in NeIndexes : i < neIndex[p] => neOut'[i] = neOut[i]
    BY <1>4 DEF NeIndexes
  <2>. QED
    BY <1>1, <1>3, <2>1 DEF NeIInv, NeRestoreIsOfTheEntry, NeAtRest
<1>. QED
  BY <1>3, <1>5, <1>6, <1>7, <1>8, <1>9 DEF NeIInv

LEMMA NePlaceOutputKeeps == ASSUME NeIInv, NEW p \in NeProcs, NePlaceOutput(p) PROVE NeIInv'
<1>. DEFINE i == neIndex[p]
            next == IF i < NeOutputs THEN "install" ELSE "read"
<1>1. /\ neAt[p] = "placing" /\ NeGo(p, next)
      /\ neOut' = [neOut EXCEPT ![i] = neHeld[p][i]]
      /\ neIndex' = IF i < NeOutputs THEN [neIndex EXCEPT ![p] = i + 1] ELSE neIndex
      /\ neTemps' \in {neTemps, neTemps \ {p}}
      /\ UNCHANGED <<neEntry, neHeld, neText, neOverlap, neDamages>>
  BY DEF NePlaceOutput
<1>2. next \in NePlaces /\ neAt[p] \notin NeAtRest
  BY <1>1 DEF NePlaces, NeAtRest
<1>3. /\ neAt' \in [NeProcs -> NePlaces] /\ neAt'[p] = next
      /\ \A q \in NeProcs : q # p => neAt'[q] = neAt[q]
      /\ NeOneIsAtWork' /\ neAt[p] # "stored"
      /\ \A q \in NeProcs : q # p /\ ~neOverlap => neAt[q] \in NeAtRest
  <2>. HIDE DEF next
  <2>. QED
    BY <1>1, <1>2, NeOnTheWay
<1>4. /\ neOut \in NeOuts /\ i \in NeIndexes /\ neHeld[p] \in NeOuts
      /\ neIndex \in [NeProcs -> NeIndexes] /\ NeOutputs \in Nat
  BY NeAssumption DEF NeIInv, NeIsTyped
<1>5. /\ neOut' \in NeOuts /\ neOut'[i] = neHeld[p][i]
      /\ \A j \in NeIndexes : j # i => neOut'[j] = neOut[j]
  <2>. HIDE DEF i
  <2>. QED
    BY <1>1, <1>4 DEF NeOuts
<1>6. /\ neIndex' \in [NeProcs -> NeIndexes]
      /\ \A q \in NeProcs : q # p => neIndex'[q] = neIndex[q]
      /\ (next = "install" => neIndex'[p] = i + 1)
  <2>1. i < NeOutputs => i + 1 \in NeIndexes
    BY <1>4 DEF NeIndexes
  <2>. QED
    BY <1>1, <1>4, <2>1
<1>7. next = "read" => \A j \in NeIndexes : j = i \/ j < i
  BY <1>4 DEF NeIndexes
<1>8. \A j \in NeIndexes : j < i + 1 => j = i \/ j < i
  BY <1>4 DEF NeIndexes
<1>9. next \in {"install", "read"}
  OBVIOUS
<1>10. i = neIndex[p]
  OBVIOUS
<1>. HIDE DEF i, next
<1>11. NeIsTyped'
  BY <1>1, <1>3, <1>5, <1>6 DEF NeIInv, NeIsTyped, NeOuts, NeIndexes
<1>12. NeEntryIsOfItsStore'
  BY <1>1, <1>3 DEF NeIInv, NeEntryIsOfItsStore, NeIsWhole
<1>13. NeHeldIsWhole'
  BY <1>1, <1>3 DEF NeIInv, NeHeldIsWhole, NeIsWhole
<1>14. NeRestoresFindNoDamage'
  BY <1>1, <1>3, <1>9 DEF NeIInv, NeRestoresFindNoDamage
<1>15. NeRestoreIsOfTheEntry'
  <2>. SUFFICES ASSUME ~neOverlap' PROVE NeRestoreIsOfTheEntry'
    BY DEF NeRestoreIsOfTheEntry
  <2>1. /\ ~neOverlap /\ neEntry # NeNoEntry /\ neEntry.sound /\ neHeld[p] = neEntry.outs
        /\ \A j \in NeIndexes : j < i => neOut[j] = neHeld[p][j]
    BY <1>1, <1>10 DEF NeIInv, NeRestoreIsOfTheEntry
  <2>2. \A j \in NeIndexes : j = i \/ j < i => neOut'[j] = neHeld[p][j]
    BY <1>5, <2>1
  <2>3. next = "read" => neOut' = neHeld[p]
    BY <1>4, <1>5, <1>7, <2>2 DEF NeOuts
  <2>4. next = "install" => \A j \in NeIndexes : j < neIndex'[p] => neOut'[j] = neHeld[p][j]
    BY <1>6, <1>8, <2>2
  <2>5. \A q \in NeProcs : q # p => neAt'[q] \in NeAtRest /\ (neAt'[q] = "hit" => neText[q] \in NeProcs)
    BY <1>3, <2>1 DEF NeIInv, NeRestoreIsOfTheEntry
  <2>6. UNCHANGED <<neEntry, neHeld, neText>>
    BY <1>1
  <2>7. /\ neEntry' # NeNoEntry' /\ neEntry'.sound
        /\ (neAt'[p] \in {"install", "placing"} =>
              /\ neHeld'[p] = neEntry'.outs
              /\ \A j \in NeIndexes : j < neIndex'[p] => neOut'[j] = neHeld'[p][j])
        /\ (neAt'[p] = "read" => neOut' = neHeld'[p] /\ neHeld'[p] = neEntry'.outs)
        /\ neAt'[p] # "hit"
    BY <1>3, <1>9, <2>1, <2>3, <2>4, <2>6 DEF NeNoEntry, NeNone, NeIndexes
  <2>8. \A q \in NeProcs : q # p =>
           neAt'[q] \notin {"unpack", "temp", "unpacking", "install", "placing", "read"}
    BY <2>5 DEF NeAtRest
  <2>. QED
    BY <2>5, <2>6, <2>7, <2>8 DEF NeRestoreIsOfTheEntry, NeIndexes
<1>. QED
  BY <1>3, <1>11, <1>12, <1>13, <1>14, <1>15 DEF NeIInv

LEMMA NeReadKeeps == ASSUME NeIInv, NEW p \in NeProcs, NeRead(p) PROVE NeIInv'
<1>1. /\ neAt[p] = "read" /\ NeGo(p, "hit") /\ neText' = [neText EXCEPT ![p] = neEntry.text]
      /\ UNCHANGED <<neEntry, neTemps, neOut, neHeld, neIndex, neOverlap, neDamages>>
  BY DEF NeRead
<1>2. "hit" \in NePlaces /\ neAt[p] \notin NeAtRest
  BY <1>1 DEF NePlaces, NeAtRest
<1>3. /\ neAt' \in [NeProcs -> NePlaces] /\ neAt'[p] = "hit"
      /\ \A q \in NeProcs : q # p => neAt'[q] = neAt[q]
      /\ NeOneIsAtWork' /\ neAt[p] # "stored"
      /\ \A q \in NeProcs : q # p /\ ~neOverlap => neAt[q] \in NeAtRest
  BY <1>1, <1>2, NeOnTheWay
<1>4. /\ DOMAIN neText' = NeProcs /\ neText'[p] = neEntry.text
      /\ \A q \in NeProcs : q # p => neText'[q] = neText[q]
  BY <1>1 DEF NeIInv, NeIsTyped
<1>5. NeIsTyped'
  BY <1>1, <1>3, <1>4 DEF NeIInv, NeIsTyped, NeOuts, NeIndexes
<1>6. NeEntryIsOfItsStore'
  BY <1>1, <1>3 DEF NeIInv, NeEntryIsOfItsStore, NeIsWhole
<1>7. NeHeldIsWhole'
  BY <1>1, <1>3 DEF NeIInv, NeHeldIsWhole, NeIsWhole
<1>8. NeRestoresFindNoDamage'
  BY <1>1, <1>3 DEF NeIInv, NeRestoresFindNoDamage
<1>9. NeRestoreIsOfTheEntry'
  <2>1. ~neOverlap => neEntry.text \in NeProcs
    BY <1>1 DEF NeIInv, NeRestoreIsOfTheEntry, NeEntryIsOfItsStore
  <2>. QED
    BY <1>1, <1>3, <1>4, <2>1 DEF NeIInv, NeRestoreIsOfTheEntry
<1>. QED
  BY <1>3, <1>5, <1>6, <1>7, <1>8, <1>9 DEF NeIInv

LEMMA NeRunKeeps == ASSUME NeIInv, NEW p \in NeProcs, NeRun(p) PROVE NeIInv'
<1>1. /\ neAt[p] = "run" /\ UNCHANGED <<neEntry, neTemps, neHeld, neIndex, neOverlap, neDamages>>
      /\ \/ /\ \E made \in SUBSET NeIndexes :
                 neOut' = [i \in NeIndexes |-> IF i \in made THEN p ELSE neOut[i]]
            /\ NeGo(p, "check") /\ neText' = [neText EXCEPT ![p] = p]
         \/ NeGo(p, "failed") /\ UNCHANGED <<neOut, neText>>
  BY DEF NeRun
<1>2. PICK next \in {"check", "failed"} : NeGo(p, next)
  BY <1>1
<1>3. next \in NePlaces /\ neAt[p] \notin NeAtRest
  BY <1>1, <1>2 DEF NePlaces, NeAtRest
<1>4. /\ neAt' \in [NeProcs -> NePlaces] /\ neAt'[p] = next
      /\ \A q \in NeProcs : q # p => neAt'[q] = neAt[q]
      /\ NeOneIsAtWork' /\ neAt[p] # "stored"
      /\ \A q \in NeProcs : q # p /\ ~neOverlap => neAt[q] \in NeAtRest
  BY <1>1, <1>2, <1>3, NeOnTheWay
<1>5. neOut' \in NeOuts /\ DOMAIN neText' = NeProcs /\ \A q \in NeProcs : q # p => neText'[q] = neText[q]
  BY <1>1 DEF NeIInv, NeIsTyped, NeOuts
<1>6. NeIsTyped'
  BY <1>1, <1>4, <1>5 DEF NeIInv, NeIsTyped, NeOuts, NeIndexes
<1>7. NeEntryIsOfItsStore'
  BY <1>1, <1>4 DEF NeIInv, NeEntryIsOfItsStore, NeIsWhole
<1>8. NeHeldIsWhole'
  BY <1>1, <1>2, <1>4 DEF NeIInv, NeHeldIsWhole, NeIsWhole
<1>9. NeRestoresFindNoDamage'
  BY <1>1, <1>2, <1>4 DEF NeIInv, NeRestoresFindNoDamage
<1>10. NeRestoreIsOfTheEntry'
  <2>1. \A q \in NeProcs : q # p /\ ~neOverlap =>
           neAt[q] \notin {"unpack", "temp", "unpacking", "install", "placing", "read"}
    BY <1>4 DEF NeAtRest
  <2>. QED
    BY <1>1, <1>2, <1>4, <1>5, <2>1 DEF NeIInv, NeRestoreIsOfTheEntry
<1>. QED
  BY <1>4, <1>6, <1>7, <1>8, <1>9, <1>10 DEF NeIInv

LEMMA NeStoreBeginsKeeps == ASSUME NeIInv, NEW p \in NeProcs, NeStoreBegins(p) PROVE NeIInv'
<1>1. /\ neAt[p] = "check"
      /\ UNCHANGED <<neEntry, neTemps, neOut, neIndex, neText, neOverlap, neDamages>>
  BY DEF NeStoreBegins
<1>2. neAt[p] \notin NeAtRest /\ "replace" \in NePlaces /\ "stored" \in NePlaces /\ "failed" \in NePlaces
  BY <1>1 DEF NePlaces, NeAtRest
<1>3. CASE UNCHANGED neHeld /\ (NeGo(p, "stored") \/ NeGo(p, "failed"))
  BY <1>1, <1>2, <1>3, NeMoves DEF NeIInv, NeIsTyped
<1>4. CASE /\ NeGo(p, "replace") /\ neHeld' = [neHeld EXCEPT ![p] = neOut]
           /\ \A i \in NeIndexes : neOut[i] # "none"
  <2>1. /\ neAt' \in [NeProcs -> NePlaces] /\ neAt'[p] = "replace"
        /\ \A q \in NeProcs : q # p => neAt'[q] = neAt[q]
        /\ NeOneIsAtWork' /\ neAt[p] # "stored"
    BY <1>1, <1>2, <1>4, NeOnTheWay
  <2>2. /\ neHeld' \in [NeProcs -> NeOuts] /\ neHeld'[p] = neOut
        /\ \A q \in NeProcs : q # p => neHeld'[q] = neHeld[q]
    BY <1>4 DEF NeIInv, NeIsTyped
  <2>3. NeIsWhole(neOut)
    BY <1>4, NeAssumption DEF NeIInv, NeIsTyped, NeOuts, NeIsWhole
  <2>4. NeIsTyped'
    BY <1>1, <2>1, <2>2 DEF NeIInv, NeIsTyped, NeOuts, NeIndexes
  <2>5. NeEntryIsOfItsStore'
    BY <1>1, <2>1, <2>2 DEF NeIInv, NeEntryIsOfItsStore, NeIsWhole
  <2>6. NeHeldIsWhole'
    BY <2>1, <2>2, <2>3 DEF NeIInv, NeHeldIsWhole, NeIsWhole
  <2>7. NeRestoresFindNoDamage'
    BY <1>1, <2>1 DEF NeIInv, NeRestoresFindNoDamage
  <2>8. NeRestoreIsOfTheEntry'
    BY <1>1, <2>1, <2>2 DEF NeIInv, NeRestoreIsOfTheEntry
  <2>. QED
    BY <2>1, <2>4, <2>5, <2>6, <2>7, <2>8 DEF NeIInv
<1>. QED
  BY <1>3, <1>4 DEF NeStoreBegins

LEMMA NeReplaceKeeps == ASSUME NeIInv, NEW p \in NeProcs, NeReplace(p) PROVE NeIInv'
<1>1. /\ neAt[p] = "replace" /\ NeGo(p, "rename") /\ neEntry' = NeNoEntry /\ neTemps' = {}
      /\ UNCHANGED <<neOut, neHeld, neIndex, neText, neOverlap, neDamages>>
  BY DEF NeReplace
<1>2. "rename" \in NePlaces /\ neAt[p] \notin NeAtRest
  BY <1>1 DEF NePlaces, NeAtRest
<1>3. /\ neAt' \in [NeProcs -> NePlaces] /\ neAt'[p] = "rename"
      /\ \A q \in NeProcs : q # p => neAt'[q] = neAt[q]
      /\ NeOneIsAtWork' /\ neAt[p] # "stored"
      /\ \A q \in NeProcs : q # p /\ ~neOverlap => neAt[q] \in NeAtRest
  BY <1>1, <1>2, NeOnTheWay
<1>4. NeIsTyped'
  BY <1>1, <1>3 DEF NeIInv, NeIsTyped, NeOuts, NeIndexes
<1>5. NeEntryIsOfItsStore' /\ NeRestoresFindNoDamage'
  BY <1>1 DEF NeEntryIsOfItsStore, NeRestoresFindNoDamage, NeNoEntry, NeNone, NeIndexes
<1>6. NeHeldIsWhole'
  BY <1>1, <1>3 DEF NeIInv, NeHeldIsWhole, NeIsWhole
<1>7. NeRestoreIsOfTheEntry'
  <2>1. \A q \in NeProcs : q # p /\ ~neOverlap =>
           neAt[q] \notin {"unpack", "temp", "unpacking", "install", "placing", "read"}
    BY <1>3 DEF NeAtRest
  <2>. QED
    BY <1>1, <1>3, <2>1 DEF NeIInv, NeRestoreIsOfTheEntry
<1>. QED
  BY <1>3, <1>4, <1>5, <1>6, <1>7 DEF NeIInv

LEMMA NeRenameKeeps == ASSUME NeIInv, NEW p \in NeProcs, NeRename(p) PROVE NeIInv'
<1>1. /\ neAt[p] = "rename"
      /\ UNCHANGED <<neTemps, neOut, neHeld, neIndex, neText, neOverlap, neDamages>>
  BY DEF NeRename
<1>2. "stored" \in NePlaces /\ "failed" \in NePlaces /\ neAt[p] \notin NeAtRest
  BY <1>1 DEF NePlaces, NeAtRest
<1>3. CASE NeGo(p, "failed") /\ UNCHANGED neEntry
  BY <1>1, <1>2, <1>3, NeMoves DEF NeIInv, NeIsTyped
<1>4. CASE NeGo(p, "stored") /\ neEntry' = [text |-> p, outs |-> neHeld[p], sound |-> TRUE]
           /\ neEntry = NeNoEntry
  <2>1. /\ neAt' \in [NeProcs -> NePlaces] /\ neAt'[p] = "stored"
        /\ \A q \in NeProcs : q # p => neAt'[q] = neAt[q]
        /\ NeOneIsAtWork' /\ neAt[p] # "stored"
        /\ \A q \in NeProcs : q # p /\ ~neOverlap => neAt[q] \in NeAtRest
    BY <1>1, <1>2, <1>4, NeOnTheWay
  <2>2. neEntry'.text = p /\ neEntry'.outs = neHeld[p] /\ neEntry'.sound
    BY <1>4
  <2>3. NeIsTyped'
    BY <1>1, <2>1 DEF NeIInv, NeIsTyped, NeOuts, NeIndexes
  <2>4. NeEntryIsOfItsStore'
    BY <1>1, <2>1, <2>2 DEF NeIInv, NeEntryIsOfItsStore, NeHeldIsWhole, NeIsWhole
  <2>5. NeHeldIsWhole'
    BY <1>1, <2>1 DEF NeIInv, NeHeldIsWhole, NeIsWhole
  <2>6. NeRestoresFindNoDamage'
    BY <2>2 DEF NeRestoresFindNoDamage
  <2>7. NeRestoreIsOfTheEntry'
    <3>1. \A q \in NeProcs : q # p /\ ~neOverlap =>
             neAt[q] \notin {"unpack", "temp", "unpacking", "install", "placing", "read"}
      BY <2>1 DEF NeAtRest
    <3>. QED
      BY <1>1, <2>1, <3>1 DEF NeIInv, NeRestoreIsOfTheEntry
  <2>. QED
    BY <2>1, <2>3, <2>4, <2>5, <2>6, <2>7 DEF NeIInv
<1>. QED
  BY <1>3, <1>4 DEF NeRename, NeEntryExists

(* The world steps in while nobody is at work. *)
LEMMA NeDamageKeeps == ASSUME NeIInv, NeDamage PROVE NeIInv'
<1>1. /\ neEntry # NeNoEntry /\ NeBusy = {} /\ neDamages < NeMaxDamages
      /\ neDamages' = neDamages + 1
      /\ neEntry'.text = neEntry.text /\ neEntry'.sound = FALSE
      /\ UNCHANGED <<neAt, neTemps, neOut, neHeld, neIndex, neText, neOverlap>>
  BY DEF NeDamage
<1>2. \A q \in NeProcs :
         neAt[q] \notin {"unpack", "temp", "unpacking", "install", "placing", "read"}
  BY <1>1 DEF NeBusy, NeAtRest
<1>3. NeIsTyped'
  BY <1>1, NeAssumption DEF NeIInv, NeIsTyped, NeOuts, NeIndexes
<1>4. NeOneIsAtWork' /\ NeHeldIsWhole'
  BY <1>1 DEF NeIInv, NeOneIsAtWork, NeBusy, NeHeldIsWhole, NeIsWhole
<1>5. NeEntryIsOfItsStore'
  BY <1>1 DEF NeIInv, NeEntryIsOfItsStore
<1>6. NeRestoresFindNoDamage' /\ NeRestoreIsOfTheEntry'
  BY <1>1, <1>2 DEF NeIInv, NeRestoresFindNoDamage, NeRestoreIsOfTheEntry
<1>. QED
  BY <1>3, <1>4, <1>5, <1>6 DEF NeIInv

LEMMA NeCleanKeeps == ASSUME NeIInv, NeClean PROVE NeIInv'
<1>1. /\ NeBusy = {} /\ neOut' = NeNone
      /\ UNCHANGED <<neAt, neEntry, neTemps, neHeld, neIndex, neText, neOverlap, neDamages>>
  BY DEF NeClean
<1>2. \A q \in NeProcs :
         neAt[q] \notin {"unpack", "temp", "unpacking", "install", "placing", "read"}
  BY <1>1 DEF NeBusy, NeAtRest
<1>3. NeIsTyped'
  BY <1>1 DEF NeIInv, NeIsTyped, NeOuts, NeIndexes, NeNone
<1>4. NeOneIsAtWork' /\ NeHeldIsWhole'
  BY <1>1 DEF NeIInv, NeOneIsAtWork, NeBusy, NeHeldIsWhole, NeIsWhole
<1>5. NeEntryIsOfItsStore'
  BY <1>1 DEF NeIInv, NeEntryIsOfItsStore, NeIsWhole
<1>6. NeRestoresFindNoDamage' /\ NeRestoreIsOfTheEntry'
  BY <1>1, <1>2 DEF NeIInv, NeRestoresFindNoDamage, NeRestoreIsOfTheEntry
<1>. QED
  BY <1>3, <1>4, <1>5, <1>6 DEF NeIInv

LEMMA NeInitEstablishes == ASSUME NeInit PROVE NeIInv
<1>. USE DEF NeInit
<1>1. NeIsTyped
  BY NeAssumption DEF NeIsTyped, NePlaces, NeAtRest, NeOuts, NeNone, NeIndexes
<1>2. NeOneIsAtWork /\ NeEntryIsOfItsStore /\ NeHeldIsWhole /\ NeRestoresFindNoDamage
  BY DEF NeOneIsAtWork, NeBusy, NeAtRest, NeEntryIsOfItsStore, NeHeldIsWhole, NeRestoresFindNoDamage
<1>3. NeRestoreIsOfTheEntry
  BY DEF NeRestoreIsOfTheEntry
<1>. QED
  BY <1>1, <1>2, <1>3 DEF NeIInv

LEMMA NeNextKeeps == ASSUME NeIInv, [NeNext]_neVars PROVE NeIInv'
<1>1. CASE \E p \in NeProcs : NeLook(p)
  BY <1>1, NeLookKeeps
<1>2. CASE \E p \in NeProcs : NeUnpackBegins(p)
  <2>1. PICK p \in NeProcs : NeUnpackBegins(p)
    BY <1>2
  <2>2. neAt[p] = "unpack" /\ neAt[p] \notin NeAtRest /\ "run" \in NePlaces /\ "temp" \in NePlaces
        /\ neTemps' \subseteq NeProcs
    BY <2>1 DEF NeUnpackBegins, NeAtRest, NePlaces, NeIInv, NeIsTyped
  <2>. QED
    BY <2>1, <2>2, NeMoves DEF NeUnpackBegins
<1>3. CASE \E p \in NeProcs : NeMakeTemp(p)
  <2>1. PICK p \in NeProcs : NeMakeTemp(p)
    BY <1>3
  <2>2. neAt[p] = "temp" /\ neAt[p] \notin NeAtRest /\ "unpacking" \in NePlaces
        /\ neTemps' \subseteq NeProcs
    BY <2>1 DEF NeMakeTemp, NeAtRest, NePlaces, NeIInv, NeIsTyped
  <2>. QED
    BY <2>1, <2>2, NeMoves DEF NeMakeTemp
<1>4. CASE \E p \in NeProcs : NeUnpack(p)
  BY <1>4, NeUnpackKeeps
<1>5. CASE \E p \in NeProcs : NeUnpackFails(p)
  <2>1. PICK p \in NeProcs : NeUnpackFails(p)
    BY <1>5
  <2>2. neAt[p] \notin NeAtRest /\ "failed" \in NePlaces /\ neTemps' \subseteq NeProcs
    BY <2>1 DEF NeUnpackFails, NeAtRest, NePlaces, NeIInv, NeIsTyped
  <2>. QED
    BY <2>1, <2>2, NeMoves DEF NeUnpackFails
<1>6. CASE \E p \in NeProcs : NeRemoveOutput(p)
  BY <1>6, NeRemoveOutputKeeps
<1>7. CASE \E p \in NeProcs : NePlaceOutput(p)
  BY <1>7, NePlaceOutputKeeps
<1>8. CASE \E p \in NeProcs : NeRead(p)
  BY <1>8, NeReadKeeps
<1>9. CASE \E p \in NeProcs : NeRun(p)
  BY <1>9, NeRunKeeps
<1>10. CASE \E p \in NeProcs : NeStoreBegins(p)
  BY <1>10, NeStoreBeginsKeeps
<1>11. CASE \E p \in NeProcs : NeStoreFails(p)
  <2>1. PICK p \in NeProcs : NeStoreFails(p)
    BY <1>11
  <2>2. neAt[p] \notin NeAtRest /\ "failed" \in NePlaces /\ neTemps' \subseteq NeProcs
    BY <2>1 DEF NeStoreFails, NeFails, NeAtRest, NePlaces, NeIInv, NeIsTyped
  <2>. QED
    BY <2>1, <2>2, NeMoves DEF NeStoreFails, NeFails
<1>12. CASE \E p \in NeProcs : NeReplace(p)
  BY <1>12, NeReplaceKeeps
<1>13. CASE \E p \in NeProcs : NeRename(p)
  BY <1>13, NeRenameKeeps
<1>14. CASE \E p \in NeProcs : NeDies(p)
  <2>1. PICK p \in NeProcs : NeDies(p)
    BY <1>14
  <2>2. neAt[p] \notin NeAtRest /\ "dead" \in NePlaces /\ neTemps' \subseteq NeProcs
    BY <2>1 DEF NeDies, NeAtRest, NePlaces, NeIInv, NeIsTyped
  <2>. QED
    BY <2>1, <2>2, NeMoves DEF NeDies
<1>15. CASE NeDamage
  BY <1>15, NeDamageKeeps
<1>16. CASE NeClean
  BY <1>16, NeCleanKeeps
<1>17. CASE UNCHANGED neVars
  <2>1. UNCHANGED <<neAt, neEntry, neTemps, neOut, neHeld, neIndex, neText, neOverlap, neDamages>>
    BY <1>17 DEF neVars
  <2>2. NeIsTyped' /\ NeOneIsAtWork' /\ NeEntryIsOfItsStore'
    BY <2>1 DEF NeIInv, NeIsTyped, NeOneIsAtWork, NeBusy, NeEntryIsOfItsStore, NeIsWhole
  <2>3. NeHeldIsWhole' /\ NeRestoresFindNoDamage' /\ NeRestoreIsOfTheEntry'
    BY <2>1 DEF NeIInv, NeHeldIsWhole, NeIsWhole, NeRestoresFindNoDamage, NeRestoreIsOfTheEntry
  <2>. QED
    BY <2>2, <2>3 DEF NeIInv
<1>. QED
  BY <1>1, <1>2, <1>3, <1>4, <1>5, <1>6, <1>7, <1>8, <1>9, <1>10, <1>11, <1>12, <1>13,
     <1>14, <1>15, <1>16, <1>17 DEF NeNext

LEMMA NeAlways == NeSpec => []NeIInv
BY NeInitEstablishes, NeNextKeeps, PTL DEF NeSpec

LEMMA NeIInvImpliesTypes == ASSUME NeIInv PROVE NeTypeOK
BY DEF NeIInv, NeIsTyped, NeTypeOK, NePlaces, NeOuts, NeResults

LEMMA NeIInvImpliesSafety == ASSUME NeIInv PROVE NeSafety
<1>1. NeEntryIsWhole
  <2>1. NeNoEntry.sound = FALSE
    BY DEF NeNoEntry
  <2>. QED
    BY <2>1 DEF NeIInv, NeEntryIsOfItsStore, NeEntryIsWhole, NeIsWhole
<1>2. \A i \in NeIndexes : neOut[i] # "damaged"
  BY NeAssumption DEF NeIInv, NeIsTyped, NeOuts
<1>3. NeHitIsTheEntry
  BY <1>2 DEF NeIInv, NeRestoreIsOfTheEntry, NeHitIsTheEntry
<1>. QED
  BY <1>1, <1>3 DEF NeSafety

--------------------------------------------------------------------------------
(* The types of both. *)
THEOREM EntriesAreTyped == NeSpec /\ PrSpec => [](NeTypeOK /\ PrTypeOK)
  BY NeAlways, NeIInvImpliesTypes, PrAlways, PrIInvImpliesTypes, PTL

(* However many processes store and replay a named task at once, and whenever one is
   killed, nothing damaged reaches the workspace, an entry in place is whole, and a hit
   that no other process disturbed leaves all the outputs of that entry. *)
THEOREM NamedEntriesAreWhole == NeSpec => []NeSafety
  BY NeAlways, NeIInvImpliesSafety, PTL

(* A prune that ends well leaves the cache within its limits, if nothing was stored
   meanwhile and whatever other prunes removed, and what it takes for the size is the
   oldest of what it saw, and no more than it must. *)
THEOREM PrunesTakeTheOldest == PrSpec => []PrSafety
  BY PrAlways, PrIInvImpliesSafety, PTL

(* Both: the caches keep whole entries and give up no more than they must. *)
THEOREM EntriesAreKept == NeSpec /\ PrSpec => []EntriesSafety
<1>1. NeSafety /\ PrSafety => EntriesSafety
  BY DEF EntriesSafety
<1>. QED
  BY <1>1, NamedEntriesAreWhole, PrunesTakeTheOldest, PTL
================================================================================

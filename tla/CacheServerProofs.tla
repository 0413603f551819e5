--------------------------- MODULE CacheServerProofs ---------------------------
(***************************************************************************)
(* The cache server's invariants for every set of keys, uploads and        *)
(* readers and every quota, and its refinement of the first-writer-wins    *)
(* store.  Then who may ask it: that a server which takes requests accepts *)
(* the two tokens it was configured with and no other static one, and that *)
(* what the workspace has reserved is what the sessions in its scopes      *)
(* hold, for any tokens, configurations, trust rules, identity tokens and  *)
(* uploads, and however often the server is started and stopped.           *)
(***************************************************************************)
EXTENDS CacheServer, ServerAccess, FiniteSetTheorems, TLAPS

(* The part of the invariant about who may still touch an object. *)
Ownership ==
    /\ EntriesNameTheirPublisher
    /\ BlobsArePublished
    /\ SessionsFollowHandlers
    /\ CollectorHoldsGarbage
    /\ ErasedObjectsStayErased
    /\ VisibleEntriesAreStored

(* The part about quota. *)
Accounts == ReservationsAreExact /\ WithinQuota

Holders == {u \in Uploads : Active(u)}

(* Sets of uploads can be counted. *)
LEMMA SetsOfUploads ==
    ASSUME NEW S \in SUBSET Uploads
    PROVE  IsFiniteSet(S) /\ Cardinality(S) \in Nat
BY ServerAssumption, FS_Subset, FS_CardinalityType DEF ServerAssumption

(* Counting after one upload joins or leaves, and after several leave. *)
LEMMA CountingUploads ==
    ASSUME NEW S \in SUBSET Uploads, NEW T \in SUBSET Uploads
    PROVE  /\ \A u \in T : u \notin S /\ T = S \cup {u} => Cardinality(T) = Cardinality(S) + 1
           /\ T \subseteq S => Cardinality(S \ T) = Cardinality(S) - Cardinality(T)
           /\ T \subseteq S => Cardinality(T) <= Cardinality(S)
<1>1. IsFiniteSet(S) /\ IsFiniteSet(T) /\ Cardinality(S) \in Nat /\ Cardinality(T) \in Nat
    BY SetsOfUploads
<1>2. \A u \in T : u \notin S /\ T = S \cup {u} => Cardinality(T) = Cardinality(S) + 1
    BY <1>1, FS_AddElement
<1>3. T \subseteq S => Cardinality(T) <= Cardinality(S)
    BY <1>1, FS_Subset
<1>4. T \subseteq S => Cardinality(S \ T) = Cardinality(S) - Cardinality(T)
    <2>1. SUFFICES ASSUME T \subseteq S PROVE Cardinality(S \ T) = Cardinality(S) - Cardinality(T)
        OBVIOUS
    <2>2. S \cap T = T
        BY <2>1
    <2> QED BY <1>1, <2>2, FS_Difference
<1> QED BY <1>2, <1>3, <1>4

--------------------------------------------------------------------------------
(* Every step keeps the types: reserved never goes below zero. *)
LEMMA TypeOKStep ==
    ASSUME TypeOK, [Next]_vars
    PROVE  TypeOK'
<1>1. ASSUME NEW u \in Uploads, AnswerPublished(u) PROVE TypeOK'
    BY <1>1, ServerAssumption DEF AnswerPublished, TypeOK, Phases, Answers, Goto, gcVars, Key,
        Visible
<1>2. ASSUME NEW u \in Uploads, AcceptBody(u) PROVE TypeOK'
    BY <1>2, ServerAssumption DEF AcceptBody, TypeOK, Phases, Answers, Goto, gcVars
<1>3. ASSUME NEW u \in Uploads, Refuse(u) PROVE TypeOK'
    BY <1>3, ServerAssumption DEF Refuse, TypeOK, Phases, Answers, Goto, gcVars
<1>4. ASSUME NEW u \in Uploads, Reserve(u) PROVE TypeOK'
    BY <1>4, ServerAssumption DEF Reserve, TypeOK, Phases, Answers, Goto, gcVars
<1>5. ASSUME NEW u \in Uploads, UploadSucceeds(u) PROVE TypeOK'
    BY <1>5, ServerAssumption DEF UploadSucceeds, TypeOK, Phases, Answers, Goto, gcVars
<1>6. ASSUME NEW u \in Uploads, UploadFails(u) PROVE TypeOK'
    BY <1>6, ServerAssumption DEF UploadFails, TypeOK, Phases, Answers, Goto, gcVars
<1>7. ASSUME NEW u \in Uploads, VerifySucceeds(u) PROVE TypeOK'
    BY <1>7, ServerAssumption DEF VerifySucceeds, TypeOK, Phases, Answers, Goto, gcVars
<1>8. ASSUME NEW u \in Uploads, VerifyFails(u) PROVE TypeOK'
    BY <1>8, ServerAssumption DEF VerifyFails, TypeOK, Phases, Answers, Goto, gcVars
<1>9. ASSUME NEW u \in Uploads, Publish(u) PROVE TypeOK'
    BY <1>9, ServerAssumption DEF Publish, TypeOK, Phases, Answers, Goto, gcVars, Active,
        Finish, KeyIsFree, Key
<1>10. ASSUME NEW u \in Uploads, LosePublication(u) PROVE TypeOK'
    BY <1>10, ServerAssumption DEF LosePublication, TypeOK, Phases, Answers, Goto, gcVars,
        Active, Finish, KeyIsFree, Key
<1>11. ASSUME NEW u \in Uploads, PublishFails(u) PROVE TypeOK'
    BY <1>11, ServerAssumption DEF PublishFails, TypeOK, Phases, Answers, Goto, gcVars
<1>12. ASSUME NEW u \in Uploads, ReleaseSucceeds(u) PROVE TypeOK'
    BY <1>12, ServerAssumption DEF ReleaseSucceeds, TypeOK, Phases, Answers, Goto, gcVars,
        Active, Finish, AfterRelease
<1>13. ASSUME NEW u \in Uploads, ReleaseFails(u) PROVE TypeOK'
    BY <1>13, ServerAssumption DEF ReleaseFails, TypeOK, Phases, Answers, Goto, gcVars,
        AfterRelease
<1>14. ASSUME NEW u \in Uploads, Discard(u) PROVE TypeOK'
    BY <1>14, ServerAssumption DEF Discard, TypeOK, Phases, Answers, Goto, gcVars
<1>15. ASSUME NEW u \in Uploads, CleanupObject(u) PROVE TypeOK'
    BY <1>15, ServerAssumption DEF CleanupObject, TypeOK, Phases, Answers, Goto, gcVars,
        CleanupFails
<1>16. ASSUME NEW u \in Uploads, CleanupRow(u) PROVE TypeOK'
    BY <1>16, ServerAssumption DEF CleanupRow, TypeOK, Phases, Answers, Goto, gcVars, Referenced
<1>17. ASSUME NEW u \in Uploads, NoWinner(u) PROVE TypeOK'
    BY <1>17, ServerAssumption DEF NoWinner, TypeOK, Phases, Answers, Goto, gcVars
<1>18. ASSUME NEW u \in Uploads, Disconnect(u) PROVE TypeOK'
    BY <1>18, ServerAssumption DEF Disconnect, TypeOK, Phases, Answers, Goto, gcVars, InHandler,
        MayBeStored
<1>19. ASSUME NEW r \in Readers, Lookup(r) PROVE TypeOK'
    BY <1>19, ServerAssumption DEF Lookup, TypeOK, Phases, Answers, handlerVars, gcVars, Visible
<1>20. ASSUME NEW r \in Readers, FetchSucceeds(r) PROVE TypeOK'
    BY <1>20, ServerAssumption DEF FetchSucceeds, TypeOK, Phases, Answers, handlerVars, gcVars
<1>21. ASSUME NEW r \in Readers, FetchFails(r) PROVE TypeOK'
    BY <1>21, ServerAssumption DEF FetchFails, TypeOK, Phases, Answers, handlerVars, gcVars
<1>22. ASSUME NEW overdue \in SUBSET Uploads, GcExpire(overdue) PROVE TypeOK'
    BY <1>22, ServerAssumption, SetsOfUploads DEF GcExpire, TypeOK, Phases, Answers, Active
<1>23. ASSUME NEW u \in Uploads, GcDeleteExpiredObject(u) PROVE TypeOK'
    BY <1>23, ServerAssumption DEF GcDeleteExpiredObject, TypeOK, Phases, Answers, handlerVars
<1>24. ASSUME NEW past \in SUBSET Keys, GcEvict(past) PROVE TypeOK'
    BY <1>24, ServerAssumption DEF GcEvict, TypeOK, Phases, Answers, handlerVars, Evictable
<1>25. ASSUME NEW old \in SUBSET Uploads, GcCollectOrphans(old) PROVE TypeOK'
    BY <1>25, ServerAssumption DEF GcCollectOrphans, TypeOK, Phases, Answers, handlerVars,
        Orphans, Referenced
<1>26. ASSUME NEW u \in Uploads, GcRecheck(u) PROVE TypeOK'
    BY <1>26, ServerAssumption DEF GcRecheck, TypeOK, Phases, Answers, handlerVars, Orphans,
        Referenced
<1>27. ASSUME NEW u \in Uploads, GcMark(u) PROVE TypeOK'
    BY <1>27, ServerAssumption DEF GcMark, TypeOK, Phases, Answers, handlerVars
<1>28. ASSUME NEW u \in Uploads, GcErase(u) PROVE TypeOK'
    BY <1>28, ServerAssumption DEF GcErase, TypeOK, Phases, Answers, handlerVars
<1>29. ASSUME NEW u \in Uploads, GcEraseFails(u) PROVE TypeOK'
    BY <1>29, ServerAssumption DEF GcEraseFails, TypeOK, Phases, Answers, handlerVars
<1>30. ASSUME NEW u \in Uploads, GcForget(u) PROVE TypeOK'
    BY <1>30, ServerAssumption DEF GcForget, TypeOK, Phases, Answers, handlerVars
<1>31. ASSUME GcEnds PROVE TypeOK'
    BY <1>31, ServerAssumption DEF GcEnds, TypeOK, Phases, Answers, handlerVars, GcIdle
<1>32. ASSUME GcFails PROVE TypeOK'
    BY <1>32, ServerAssumption DEF GcFails, TypeOK, Phases, Answers, handlerVars, GcIdle
<1>33. ASSUME Crash PROVE TypeOK'
    BY <1>33, ServerAssumption DEF Crash, TypeOK, Phases, Answers, GcIdle, InHandler,
        MayBeStored
<1>34. CASE UNCHANGED vars
    BY <1>34 DEF vars, handlerVars, gcVars, TypeOK, Phases, Answers
<1> QED
    BY <1>1, <1>2, <1>3, <1>4, <1>5, <1>6, <1>7, <1>8, <1>9, <1>10, <1>11, <1>12, <1>13,
        <1>14, <1>15, <1>16, <1>17, <1>18, <1>19, <1>20, <1>21, <1>22, <1>23, <1>24, <1>25,
        <1>26, <1>27, <1>28, <1>29, <1>30, <1>31, <1>32, <1>33, <1>34
    DEF Next, Put, Get, GarbageCollect

(* No step deletes, or lets anyone delete, an object a visible entry needs. *)
LEMMA OwnershipStep ==
    ASSUME TypeOK, TypeOK', Ownership, [Next]_vars
    PROVE  Ownership'
<1>1. ASSUME NEW u \in Uploads, AnswerPublished(u) PROVE Ownership'
    BY <1>1, ServerAssumption DEF AnswerPublished, TypeOK, Ownership, EntriesNameTheirPublisher,
        BlobsArePublished, SessionsFollowHandlers, CollectorHoldsGarbage,
        ErasedObjectsStayErased, VisibleEntriesAreStored, Unpublished, Key, Referenced, Active,
        Visible, Goto, gcVars
<1>2. ASSUME NEW u \in Uploads, AcceptBody(u) PROVE Ownership'
    BY <1>2, ServerAssumption DEF AcceptBody, TypeOK, Ownership, EntriesNameTheirPublisher,
        BlobsArePublished, SessionsFollowHandlers, CollectorHoldsGarbage,
        ErasedObjectsStayErased, VisibleEntriesAreStored, Unpublished, Key, Referenced, Active,
        Visible, Goto, gcVars
<1>3. ASSUME NEW u \in Uploads, Refuse(u) PROVE Ownership'
    BY <1>3, ServerAssumption DEF Refuse, TypeOK, Ownership, EntriesNameTheirPublisher,
        BlobsArePublished, SessionsFollowHandlers, CollectorHoldsGarbage,
        ErasedObjectsStayErased, VisibleEntriesAreStored, Unpublished, Key, Referenced, Active,
        Visible, Goto, gcVars
<1>4. ASSUME NEW u \in Uploads, Reserve(u) PROVE Ownership'
    BY <1>4, ServerAssumption DEF Reserve, TypeOK, Ownership, EntriesNameTheirPublisher,
        BlobsArePublished, SessionsFollowHandlers, CollectorHoldsGarbage,
        ErasedObjectsStayErased, VisibleEntriesAreStored, Unpublished, Key, Referenced, Active,
        Visible, Goto, gcVars
<1>5. ASSUME NEW u \in Uploads, UploadSucceeds(u) PROVE Ownership'
    BY <1>5, ServerAssumption DEF UploadSucceeds, TypeOK, Ownership, EntriesNameTheirPublisher,
        BlobsArePublished, SessionsFollowHandlers, CollectorHoldsGarbage,
        ErasedObjectsStayErased, VisibleEntriesAreStored, Unpublished, Key, Referenced, Active,
        Visible, Goto, gcVars
<1>6. ASSUME NEW u \in Uploads, UploadFails(u) PROVE Ownership'
    BY <1>6, ServerAssumption DEF UploadFails, TypeOK, Ownership, EntriesNameTheirPublisher,
        BlobsArePublished, SessionsFollowHandlers, CollectorHoldsGarbage,
        ErasedObjectsStayErased, VisibleEntriesAreStored, Unpublished, Key, Referenced, Active,
        Visible, Goto, gcVars
<1>7. ASSUME NEW u \in Uploads, VerifySucceeds(u) PROVE Ownership'
    BY <1>7, ServerAssumption DEF VerifySucceeds, TypeOK, Ownership, EntriesNameTheirPublisher,
        BlobsArePublished, SessionsFollowHandlers, CollectorHoldsGarbage,
        ErasedObjectsStayErased, VisibleEntriesAreStored, Unpublished, Key, Referenced, Active,
        Visible, Goto, gcVars
<1>8. ASSUME NEW u \in Uploads, VerifyFails(u) PROVE Ownership'
    BY <1>8, ServerAssumption DEF VerifyFails, TypeOK, Ownership, EntriesNameTheirPublisher,
        BlobsArePublished, SessionsFollowHandlers, CollectorHoldsGarbage,
        ErasedObjectsStayErased, VisibleEntriesAreStored, Unpublished, Key, Referenced, Active,
        Visible, Goto, gcVars
<1>9. ASSUME NEW u \in Uploads, Publish(u) PROVE Ownership'
    BY <1>9, ServerAssumption DEF Publish, TypeOK, Ownership, EntriesNameTheirPublisher,
        BlobsArePublished, SessionsFollowHandlers, CollectorHoldsGarbage,
        ErasedObjectsStayErased, VisibleEntriesAreStored, Unpublished, Key, Referenced, Active,
        Visible, Goto, gcVars, Finish, KeyIsFree
<1>10. ASSUME NEW u \in Uploads, LosePublication(u) PROVE Ownership'
    BY <1>10, ServerAssumption DEF LosePublication, TypeOK, Ownership,
        EntriesNameTheirPublisher, BlobsArePublished, SessionsFollowHandlers,
        CollectorHoldsGarbage, ErasedObjectsStayErased, VisibleEntriesAreStored, Unpublished,
        Key, Referenced, Active, Visible, Goto, gcVars, Finish, KeyIsFree
<1>11. ASSUME NEW u \in Uploads, PublishFails(u) PROVE Ownership'
    BY <1>11, ServerAssumption DEF PublishFails, TypeOK, Ownership, EntriesNameTheirPublisher,
        BlobsArePublished, SessionsFollowHandlers, CollectorHoldsGarbage,
        ErasedObjectsStayErased, VisibleEntriesAreStored, Unpublished, Key, Referenced, Active,
        Visible, Goto, gcVars
<1>12. ASSUME NEW u \in Uploads, ReleaseSucceeds(u) PROVE Ownership'
    BY <1>12, ServerAssumption DEF ReleaseSucceeds, TypeOK, Ownership,
        EntriesNameTheirPublisher, BlobsArePublished, SessionsFollowHandlers,
        CollectorHoldsGarbage, ErasedObjectsStayErased, VisibleEntriesAreStored, Unpublished,
        Key, Referenced, Active, Visible, Goto, gcVars, Finish, AfterRelease
<1>13. ASSUME NEW u \in Uploads, ReleaseFails(u) PROVE Ownership'
    BY <1>13, ServerAssumption DEF ReleaseFails, TypeOK, Ownership, EntriesNameTheirPublisher,
        BlobsArePublished, SessionsFollowHandlers, CollectorHoldsGarbage,
        ErasedObjectsStayErased, VisibleEntriesAreStored, Unpublished, Key, Referenced, Active,
        Visible, Goto, gcVars, AfterRelease
<1>14. ASSUME NEW u \in Uploads, Discard(u) PROVE Ownership'
    BY <1>14, ServerAssumption DEF Discard, TypeOK, Ownership, EntriesNameTheirPublisher,
        BlobsArePublished, SessionsFollowHandlers, CollectorHoldsGarbage,
        ErasedObjectsStayErased, VisibleEntriesAreStored, Unpublished, Key, Referenced, Active,
        Visible, Goto, gcVars
<1>15. ASSUME NEW u \in Uploads, CleanupObject(u) PROVE Ownership'
    <2>1. /\ stored' \in {stored, stored \ {u}} /\ pc' = [pc EXCEPT ![u] = pc'[u]]
          /\ pc[u] = "cleanup" /\ pc'[u] \in {"erased", "recheck"}
          /\ pc'[u] = "erased" => stored' = stored \ {u}
          /\ UNCHANGED <<request, session, blob, entry, gcVars>>
        BY <1>15 DEF CleanupObject, CleanupFails, Goto, TypeOK
    <2>2. \A v \in Uploads \ {u} : pc'[v] = pc[v]
        BY <2>1 DEF TypeOK
    <2>3. EntriesNameTheirPublisher' /\ VisibleEntriesAreStored'
        BY <2>1, <2>2 DEF TypeOK, Ownership, EntriesNameTheirPublisher, VisibleEntriesAreStored,
           Key, Visible
    <2>4. BlobsArePublished' /\ SessionsFollowHandlers' /\ ErasedObjectsStayErased'
        BY <2>1, <2>2 DEF TypeOK, Ownership, BlobsArePublished, SessionsFollowHandlers,
           ErasedObjectsStayErased, Unpublished, Active, gcVars
    <2>5. CollectorHoldsGarbage'
        BY <2>1, <2>2, ServerAssumption DEF TypeOK, Ownership, CollectorHoldsGarbage,
           Unpublished, Referenced, gcVars
    <2> QED BY <2>3, <2>4, <2>5 DEF Ownership
<1>16. ASSUME NEW u \in Uploads, CleanupRow(u) PROVE Ownership'
    BY <1>16, ServerAssumption DEF CleanupRow, TypeOK, Ownership, EntriesNameTheirPublisher,
        BlobsArePublished, SessionsFollowHandlers, CollectorHoldsGarbage,
        ErasedObjectsStayErased, VisibleEntriesAreStored, Unpublished, Key, Referenced, Active,
        Visible, Goto, gcVars
<1>17. ASSUME NEW u \in Uploads, NoWinner(u) PROVE Ownership'
    BY <1>17, ServerAssumption DEF NoWinner, TypeOK, Ownership, EntriesNameTheirPublisher,
        BlobsArePublished, SessionsFollowHandlers, CollectorHoldsGarbage,
        ErasedObjectsStayErased, VisibleEntriesAreStored, Unpublished, Key, Referenced, Active,
        Visible, Goto, gcVars
<1>18. ASSUME NEW u \in Uploads, Disconnect(u) PROVE Ownership'
    BY <1>18, ServerAssumption DEF Disconnect, TypeOK, Ownership, EntriesNameTheirPublisher,
        BlobsArePublished, SessionsFollowHandlers, CollectorHoldsGarbage,
        ErasedObjectsStayErased, VisibleEntriesAreStored, Unpublished, Key, Referenced, Active,
        Visible, Goto, gcVars, Answers, InHandler, MayBeStored
<1>19. ASSUME NEW r \in Readers, Lookup(r) PROVE Ownership'
    BY <1>19, ServerAssumption DEF Lookup, TypeOK, Ownership, EntriesNameTheirPublisher,
        BlobsArePublished, SessionsFollowHandlers, CollectorHoldsGarbage,
        ErasedObjectsStayErased, VisibleEntriesAreStored, Unpublished, Key, Referenced, Active,
        Visible, handlerVars, gcVars
<1>20. ASSUME NEW r \in Readers, FetchSucceeds(r) PROVE Ownership'
    BY <1>20, ServerAssumption DEF FetchSucceeds, TypeOK, Ownership, EntriesNameTheirPublisher,
        BlobsArePublished, SessionsFollowHandlers, CollectorHoldsGarbage,
        ErasedObjectsStayErased, VisibleEntriesAreStored, Unpublished, Key, Referenced, Active,
        Visible, handlerVars, gcVars
<1>21. ASSUME NEW r \in Readers, FetchFails(r) PROVE Ownership'
    BY <1>21, ServerAssumption DEF FetchFails, TypeOK, Ownership, EntriesNameTheirPublisher,
        BlobsArePublished, SessionsFollowHandlers, CollectorHoldsGarbage,
        ErasedObjectsStayErased, VisibleEntriesAreStored, Unpublished, Key, Referenced, Active,
        Visible, handlerVars, gcVars
<1>22. ASSUME NEW overdue \in SUBSET Uploads, GcExpire(overdue) PROVE Ownership'
    BY <1>22, ServerAssumption DEF GcExpire, TypeOK, Ownership, EntriesNameTheirPublisher,
        BlobsArePublished, SessionsFollowHandlers, CollectorHoldsGarbage,
        ErasedObjectsStayErased, VisibleEntriesAreStored, Unpublished, Key, Referenced, Active,
        Visible
<1>23. ASSUME NEW u \in Uploads, GcDeleteExpiredObject(u) PROVE Ownership'
    BY <1>23, ServerAssumption DEF GcDeleteExpiredObject, TypeOK, Ownership,
        EntriesNameTheirPublisher, BlobsArePublished, SessionsFollowHandlers,
        CollectorHoldsGarbage, ErasedObjectsStayErased, VisibleEntriesAreStored, Unpublished,
        Key, Referenced, Active, Visible, handlerVars
<1>24. ASSUME NEW past \in SUBSET Keys, GcEvict(past) PROVE Ownership'
    BY <1>24, ServerAssumption DEF GcEvict, TypeOK, Ownership, EntriesNameTheirPublisher,
        BlobsArePublished, SessionsFollowHandlers, CollectorHoldsGarbage,
        ErasedObjectsStayErased, VisibleEntriesAreStored, Unpublished, Key, Referenced, Active,
        Visible, handlerVars, Evictable
<1>25. ASSUME NEW old \in SUBSET Uploads, GcCollectOrphans(old) PROVE Ownership'
    BY <1>25, ServerAssumption DEF GcCollectOrphans, TypeOK, Ownership,
        EntriesNameTheirPublisher, BlobsArePublished, SessionsFollowHandlers,
        CollectorHoldsGarbage, ErasedObjectsStayErased, VisibleEntriesAreStored, Unpublished,
        Key, Referenced, Active, Visible, handlerVars, Orphans
<1>26. ASSUME NEW u \in Uploads, GcRecheck(u) PROVE Ownership'
    BY <1>26, ServerAssumption DEF GcRecheck, TypeOK, Ownership, EntriesNameTheirPublisher,
        BlobsArePublished, SessionsFollowHandlers, CollectorHoldsGarbage,
        ErasedObjectsStayErased, VisibleEntriesAreStored, Unpublished, Key, Referenced, Active,
        Visible, handlerVars, Orphans
<1>27. ASSUME NEW u \in Uploads, GcMark(u) PROVE Ownership'
    BY <1>27, ServerAssumption DEF GcMark, TypeOK, Ownership, EntriesNameTheirPublisher,
        BlobsArePublished, SessionsFollowHandlers, CollectorHoldsGarbage,
        ErasedObjectsStayErased, VisibleEntriesAreStored, Unpublished, Key, Referenced, Active,
        Visible, handlerVars
<1>28. ASSUME NEW u \in Uploads, GcErase(u) PROVE Ownership'
    BY <1>28, ServerAssumption DEF GcErase, TypeOK, Ownership, EntriesNameTheirPublisher,
        BlobsArePublished, SessionsFollowHandlers, CollectorHoldsGarbage,
        ErasedObjectsStayErased, VisibleEntriesAreStored, Unpublished, Key, Referenced, Active,
        Visible, handlerVars
<1>29. ASSUME NEW u \in Uploads, GcEraseFails(u) PROVE Ownership'
    BY <1>29, ServerAssumption DEF GcEraseFails, TypeOK, Ownership, EntriesNameTheirPublisher,
        BlobsArePublished, SessionsFollowHandlers, CollectorHoldsGarbage,
        ErasedObjectsStayErased, VisibleEntriesAreStored, Unpublished, Key, Referenced, Active,
        Visible, handlerVars
<1>30. ASSUME NEW u \in Uploads, GcForget(u) PROVE Ownership'
    BY <1>30, ServerAssumption DEF GcForget, TypeOK, Ownership, EntriesNameTheirPublisher,
        BlobsArePublished, SessionsFollowHandlers, CollectorHoldsGarbage,
        ErasedObjectsStayErased, VisibleEntriesAreStored, Unpublished, Key, Referenced, Active,
        Visible, handlerVars
<1>31. ASSUME GcEnds PROVE Ownership'
    BY <1>31, ServerAssumption DEF GcEnds, TypeOK, Ownership, EntriesNameTheirPublisher,
        BlobsArePublished, SessionsFollowHandlers, CollectorHoldsGarbage,
        ErasedObjectsStayErased, VisibleEntriesAreStored, Unpublished, Key, Referenced, Active,
        Visible, handlerVars, GcIdle
<1>32. ASSUME GcFails PROVE Ownership'
    BY <1>32, ServerAssumption DEF GcFails, TypeOK, Ownership, EntriesNameTheirPublisher,
        BlobsArePublished, SessionsFollowHandlers, CollectorHoldsGarbage,
        ErasedObjectsStayErased, VisibleEntriesAreStored, Unpublished, Key, Referenced, Active,
        Visible, handlerVars, GcIdle
<1>33. ASSUME Crash PROVE Ownership'
    BY <1>33, ServerAssumption DEF Crash, TypeOK, Ownership, EntriesNameTheirPublisher,
        BlobsArePublished, SessionsFollowHandlers, CollectorHoldsGarbage,
        ErasedObjectsStayErased, VisibleEntriesAreStored, Unpublished, Key, Referenced, Active,
        Visible, Answers, GcIdle, InHandler, MayBeStored
<1>34. CASE UNCHANGED vars
    BY <1>34 DEF vars, handlerVars, gcVars, TypeOK, Ownership, EntriesNameTheirPublisher,
        BlobsArePublished, SessionsFollowHandlers, CollectorHoldsGarbage,
        ErasedObjectsStayErased, VisibleEntriesAreStored, Unpublished, Key, Referenced, Active,
        Visible
<1> QED
    BY <1>1, <1>2, <1>3, <1>4, <1>5, <1>6, <1>7, <1>8, <1>9, <1>10, <1>11, <1>12, <1>13,
        <1>14, <1>15, <1>16, <1>17, <1>18, <1>19, <1>20, <1>21, <1>22, <1>23, <1>24, <1>25,
        <1>26, <1>27, <1>28, <1>29, <1>30, <1>31, <1>32, <1>33, <1>34
    DEF Next, Put, Get, GarbageCollect

--------------------------------------------------------------------------------
(* The steps that leave sessions, blobs and the reservation alone, and the rest. *)
LEMMA QuietSteps ==
    ASSUME Next
    PROVE  \/ UNCHANGED <<session, blob, reserved>>
           \/ \E u \in Uploads :
                 Reserve(u) \/ Publish(u) \/ LosePublication(u) \/ ReleaseSucceeds(u)
           \/ \E overdue \in SUBSET Uploads : GcExpire(overdue)
           \/ \E u \in Uploads : CleanupRow(u) \/ GcMark(u) \/ GcForget(u)
           \/ \E r \in Readers : FetchFails(r)
    BY DEF Next, Put, Get, GarbageCollect, AnswerPublished, AcceptBody, Refuse, UploadSucceeds,
        UploadFails, VerifySucceeds, VerifyFails, PublishFails, ReleaseFails, Discard,
        CleanupObject, NoWinner, Disconnect, Lookup, FetchSucceeds, GcDeleteExpiredObject,
        GcEvict, GcCollectOrphans, GcRecheck, GcErase, GcEraseFails, GcEnds, GcFails, Crash,
        Goto, gcVars, AfterRelease, CleanupFails, handlerVars, GcIdle

(* A transaction that ends a session gives back exactly what it held. *)
LEMMA FinishGivesBackOne ==
    ASSUME TypeOK, ReservationsAreExact, NEW u \in Uploads, NEW state \in {"complete", "failed"},
           Finish(u, state)
    PROVE  reserved' = reserved - 1 /\ reserved > 0 /\ ReservationsAreExact'
<1>1. Holders' = Holders \ {u} /\ u \in Holders /\ Holders \in SUBSET Uploads
    BY DEF Holders, Finish, Active, TypeOK
<1>2. reserved = Cardinality(Holders)
    BY DEF ReservationsAreExact, Holders
<1>3. /\ Holders \ {u} \in SUBSET Uploads
      /\ u \notin Holders \ {u} /\ Holders = (Holders \ {u}) \cup {u}
    BY <1>1
<1>4. Cardinality(Holders) = Cardinality(Holders \ {u}) + 1
    BY <1>1, <1>3, CountingUploads
<1>5. Cardinality(Holders \ {u}) \in Nat
    BY <1>3, SetsOfUploads
<1>6. reserved' = reserved - 1 /\ reserved > 0
    BY <1>2, <1>4, <1>5 DEF Finish, TypeOK
<1>7. reserved' = Cardinality(Holders')
    BY <1>1, <1>2, <1>4, <1>5, <1>6
<1> QED BY <1>6, <1>7 DEF ReservationsAreExact, Holders

(* Every step keeps the quota accounts. *)
LEMMA AccountsStep ==
    ASSUME TypeOK, Ownership, Accounts, [Next]_vars
    PROVE  Accounts'
<1> USE DEF Accounts
<1>0. /\ Holders \in SUBSET Uploads /\ Available \in SUBSET Uploads
      /\ reserved = Cardinality(Holders) /\ Cardinality(Available) \in Nat
      /\ reserved \in Nat /\ Quota \in Nat
    BY SetsOfUploads, ServerAssumption
    DEF Holders, Available, ReservationsAreExact, TypeOK, ServerAssumption
<1>1. CASE UNCHANGED <<session, blob, reserved>>
    BY <1>1 DEF ReservationsAreExact, WithinQuota, Available, Active
<1>2. ASSUME UNCHANGED <<session, reserved>>, Available' \subseteq Available PROVE Accounts'
    <2>1. Cardinality(Available') <= Cardinality(Available) /\ Cardinality(Available') \in Nat
        BY <1>0, <1>2, CountingUploads, SetsOfUploads
    <2> QED BY <1>0, <1>2, <2>1 DEF ReservationsAreExact, WithinQuota, Active
<1>3. ASSUME NEW u \in Uploads, Reserve(u) PROVE Accounts'
    <2>1. Holders' = Holders \cup {u} /\ u \notin Holders /\ Holders' \in SUBSET Uploads
        BY <1>3 DEF Reserve, Holders, Active, TypeOK, Ownership, SessionsFollowHandlers
    <2>2. Cardinality(Holders') = reserved + 1
        BY <1>0, <2>1, CountingUploads
    <2>3. Available' = Available
        BY <1>3 DEF Reserve, Available
    <2> QED
        BY <1>0, <1>3, <2>2, <2>3
        DEF Reserve, FitsQuota, ReservationsAreExact, WithinQuota, Holders
<1>4. ASSUME NEW u \in Uploads, Publish(u) PROVE Accounts'
    <2>1. reserved' = reserved - 1 /\ reserved > 0 /\ ReservationsAreExact'
        BY <1>4, FinishGivesBackOne DEF Publish
    <2>2. Available' = Available \cup {u} /\ u \notin Available /\ Available' \in SUBSET Uploads
        BY <1>4 DEF Publish, Available, TypeOK, Ownership, BlobsArePublished, Unpublished
    <2>3. Cardinality(Available') = Cardinality(Available) + 1
        BY <1>0, <2>2, CountingUploads
    <2> QED BY <1>0, <2>1, <2>3 DEF WithinQuota
<1>5. ASSUME NEW u \in Uploads, LosePublication(u) PROVE Accounts'
    <2>1. reserved' = reserved - 1 /\ reserved > 0 /\ ReservationsAreExact'
        BY <1>5, FinishGivesBackOne DEF LosePublication
    <2>2. Available' \subseteq Available
        BY <1>5 DEF LosePublication, Available, TypeOK
    <2>3. Cardinality(Available') <= Cardinality(Available) /\ Cardinality(Available') \in Nat
        BY <1>0, <2>2, CountingUploads, SetsOfUploads
    <2> QED BY <1>0, <2>1, <2>3 DEF WithinQuota
<1>6. ASSUME NEW u \in Uploads, ReleaseSucceeds(u) PROVE Accounts'
    <2>1. reserved' = reserved - 1 /\ reserved > 0 /\ ReservationsAreExact'
        BY <1>6, FinishGivesBackOne DEF ReleaseSucceeds
    <2>2. Available' = Available
        BY <1>6 DEF ReleaseSucceeds, Available
    <2> QED BY <1>0, <2>1, <2>2 DEF WithinQuota
<1>7. ASSUME NEW overdue \in SUBSET Uploads, GcExpire(overdue) PROVE Accounts'
    <2>1. Holders' = Holders \ overdue /\ overdue \subseteq Holders
        BY <1>7 DEF GcExpire, Holders, Active, TypeOK
    <2>2. /\ Cardinality(Holders') = reserved - Cardinality(overdue)
          /\ Cardinality(overdue) <= reserved /\ Cardinality(overdue) \in Nat
        BY <1>0, <2>1, CountingUploads, SetsOfUploads
    <2>3. reserved' = reserved - Cardinality(overdue)
        BY <1>0, <1>7, <2>2 DEF GcExpire
    <2>4. Available' = Available
        BY <1>7 DEF GcExpire, Available
    <2> QED BY <1>0, <2>2, <2>3, <2>4 DEF ReservationsAreExact, WithinQuota, Holders
<1>8. ASSUME NEW u \in Uploads, CleanupRow(u) \/ GcMark(u) \/ GcForget(u) PROVE Accounts'
    <2>1. UNCHANGED <<session, reserved>>
        BY <1>8 DEF CleanupRow, GcMark, GcForget, handlerVars
    <2>2. Available' \subseteq Available
        BY <1>8 DEF CleanupRow, GcMark, GcForget, Available, TypeOK
    <2> QED BY <1>2, <2>1, <2>2
<1>9. ASSUME NEW r \in Readers, FetchFails(r) PROVE Accounts'
    <2>1. UNCHANGED <<session, reserved>> /\ Available' \subseteq Available
        BY <1>9 DEF FetchFails, handlerVars, Available, TypeOK
    <2> QED BY <1>2, <2>1
<1>10. CASE UNCHANGED vars
    BY <1>1, <1>10 DEF vars
<1> QED BY <1>1, <1>3, <1>4, <1>5, <1>6, <1>7, <1>8, <1>9, <1>10, QuietSteps

--------------------------------------------------------------------------------
(* The invariant holds at the start, *)
LEMMA IInvInit == Init => IInv
<1> SUFFICES ASSUME Init PROVE IInv
    OBVIOUS
<1>1. TypeOK
    BY ServerAssumption DEF Init, TypeOK, Answers, Phases
<1>2. Ownership
    BY DEF Init, Ownership, EntriesNameTheirPublisher, BlobsArePublished, SessionsFollowHandlers,
       CollectorHoldsGarbage, ErasedObjectsStayErased, VisibleEntriesAreStored, Visible, Active
<1>3. {u \in Uploads : Active(u)} = {} /\ Available = {}
    BY DEF Init, Active, Available
<1>4. Cardinality({}) = 0
    BY FS_EmptySet
<1>5. Accounts
    BY <1>3, <1>4, ServerAssumption
    DEF Init, Accounts, ReservationsAreExact, WithinQuota, ServerAssumption
<1> QED BY <1>1, <1>2, <1>5 DEF IInv, Ownership, Accounts

(* and every step keeps it. *)
LEMMA IInvStep == IInv /\ [Next]_vars => IInv'
BY TypeOKStep, OwnershipStep, AccountsStep DEF IInv, Ownership, Accounts

(* The inductive invariant holds in every run. *)
THEOREM ServerInvariant == Spec => []IInv
BY IInvInit, IInvStep, PTL DEF Spec

(* Type correctness of the server. *)
THEOREM ServerTypes == Spec => []TypeOK
<1>1. IInv => TypeOK
    BY DEF IInv
<1> QED BY <1>1, ServerInvariant, PTL

(* Whatever a lookup finds is in the bucket, whichever handlers and collections
   run at once and wherever one of them is cut short. *)
THEOREM PublishedBundlesAreReadable == Spec => []VisibleEntriesAreStored
<1>1. IInv => VisibleEntriesAreStored
    BY DEF IInv
<1> QED BY <1>1, ServerInvariant, PTL

(* No reservation is returned twice or forgotten by a transaction. *)
THEOREM ReservationsBalance == Spec => []ReservationsAreExact
<1>1. IInv => ReservationsAreExact
    BY DEF IInv
<1> QED BY <1>1, ServerInvariant, PTL

(* Reservations and published bundles fit the quota, however uploads overlap. *)
THEOREM QuotaHolds == Spec => []WithinQuota
<1>1. IInv => WithinQuota
    BY DEF IInv
<1> QED BY <1>1, ServerInvariant, PTL

--------------------------------------------------------------------------------
(* A row that goes away leaves no object behind. *)
LEMMA ForgottenRows ==
    ASSUME TypeOK, ErasedObjectsStayErased, [Next]_vars,
           NEW u \in Uploads, blob[u] # "none", blob'[u] = "none"
    PROVE  u \notin stored'
<1>1. CASE UNCHANGED <<session, blob, reserved>> \/ UNCHANGED vars
    BY <1>1 DEF vars
<1>2. ASSUME NEW v \in Uploads, CleanupRow(v) PROVE u \notin stored'
    BY <1>2 DEF CleanupRow, TypeOK, ErasedObjectsStayErased
<1>3. ASSUME NEW v \in Uploads, GcForget(v) PROVE u \notin stored'
    BY <1>3 DEF GcForget, TypeOK, ErasedObjectsStayErased
<1>4. ASSUME NEW v \in Uploads, Reserve(v) \/ Publish(v) \/ LosePublication(v) \/ ReleaseSucceeds(v)
      PROVE  FALSE
    BY <1>4 DEF Reserve, Publish, LosePublication, ReleaseSucceeds, TypeOK
<1>5. ASSUME NEW v \in Uploads, GcMark(v) PROVE FALSE
    BY <1>5 DEF GcMark, TypeOK
<1>6. ASSUME NEW overdue \in SUBSET Uploads, GcExpire(overdue) PROVE FALSE
    BY <1>6 DEF GcExpire
<1>7. ASSUME NEW r \in Readers, FetchFails(r) PROVE FALSE
    BY <1>7 DEF FetchFails, TypeOK
<1> QED BY <1>1, <1>2, <1>3, <1>4, <1>5, <1>6, <1>7, QuietSteps

(* A failed deletion always leaves the row by which it is found again. *)
THEOREM RowsOutliveObjects == Spec => RowOutlivesObject
<1>1. IInv /\ [Next]_vars =>
          [\A u \in Uploads : blob[u] # "none" /\ blob'[u] = "none" => u \notin stored']_vars
    BY ForgottenRows DEF IInv
<1> QED BY <1>1, ServerInvariant, PTL DEF Spec, RowOutlivesObject

--------------------------------------------------------------------------------
(* The steps a client of the store cannot see, and the rest. *)
LEMMA HiddenSteps ==
    ASSUME TypeOK, Next
    PROVE  \/ UNCHANGED <<request, entry, blob, Told>>
           \/ \E u \in Uploads : AnswerPublished(u) \/ Publish(u) \/ LosePublication(u)
           \/ \E u \in Uploads : CleanupRow(u) \/ GcMark(u) \/ GcForget(u)
           \/ \E r \in Readers : FetchFails(r)
           \/ \E past \in SUBSET Keys : GcEvict(past)
<1>1. ASSUME NEW u \in Uploads,
             AcceptBody(u) \/ Refuse(u) \/ Reserve(u) \/ UploadSucceeds(u)
             \/ UploadFails(u) \/ VerifySucceeds(u) \/ VerifyFails(u) \/ PublishFails(u)
             \/ ReleaseSucceeds(u) \/ ReleaseFails(u) \/ Discard(u) \/ CleanupObject(u)
             \/ NoWinner(u) \/ Disconnect(u)
      PROVE  UNCHANGED <<request, entry, blob, Told>>
    BY <1>1 DEF AcceptBody, Refuse, Reserve, UploadSucceeds, UploadFails, VerifySucceeds,
        VerifyFails, PublishFails, ReleaseSucceeds, ReleaseFails, Discard, CleanupObject,
        NoWinner, Disconnect, Goto, AfterRelease, CleanupFails, Answers, InHandler, Told, TypeOK
<1>2. CASE Crash
    BY <1>2 DEF Crash, Answers, InHandler, Told, TypeOK
<1>3. CASE UNCHANGED <<request, pc, entry, blob>>
    BY <1>3 DEF Told
<1> QED
    BY <1>1, <1>2, <1>3 DEF Next, Put, Get, GarbageCollect, handlerVars, GcIdle, Lookup,
        FetchSucceeds, GcExpire, GcDeleteExpiredObject, GcCollectOrphans, GcRecheck, GcErase,
        GcEraseFails, GcEnds, GcFails

(* Whatever leaves the entries and what is visible of them alone is hidden. *)
LEMMA SameView ==
    ASSUME VisibleEntriesAreStored, VisibleEntriesAreStored',
           UNCHANGED <<request, entry, Told>>, \A k \in Keys : Visible(k)' <=> Visible(k)
    PROVE  UNCHANGED Store!vars
<1>1. Readable = {k \in Keys : Visible(k)} /\ Readable' = {k \in Keys : Visible(k)'}
    BY DEF Readable, VisibleEntriesAreStored
<1>2. Readable' = Readable
    BY <1>1
<1>3. Shown' = Shown
    BY DEF Shown
<1> QED BY <1>2, <1>3 DEF Store!vars

(* Every step of the server is a step of the store, or hidden. *)
LEMMA StoreStep ==
    ASSUME IInv, IInv', [Next]_vars
    PROVE  [Store!Next]_(Store!vars)
<1> USE DEF IInv
<1>0. Readable = {k \in Keys : Visible(k)} /\ Readable' = {k \in Keys : Visible(k)'}
    BY DEF Readable, VisibleEntriesAreStored
<1>1. CASE UNCHANGED <<request, entry, blob, Told>> \/ UNCHANGED vars
    BY <1>1, SameView DEF vars, Visible, Told
<1>2. ASSUME NEW u \in Uploads, AnswerPublished(u) PROVE Store!Next
    <2>1. Key(u) \in Keys /\ Told[u] = "nothing" /\ Shown[Key(u)] # NoResult
        BY <1>2, ServerAssumption DEF AnswerPublished, Told, Shown, Key, TypeOK, Visible,
           ServerAssumption
    <2>2. UNCHANGED <<request, Shown, Readable>>
        BY <1>2 DEF AnswerPublished, Shown, Readable, Visible
    <2>3. Told' = [Told EXCEPT ![u] = IF Shown[Key(u)] = request[u].result
                                      THEN "same" ELSE "conflict"]
        BY <1>2, <2>1 DEF AnswerPublished, Goto, Told, Shown, SameResult, TypeOK
    <2>4. Store!Compare(u)
        BY <2>1, <2>2, <2>3 DEF Store!Compare, Key
    <2> QED BY <2>4 DEF Store!Next
<1>3. ASSUME NEW u \in Uploads, Publish(u) PROVE Store!Next
    <2>1. PICK k \in Keys : k = request[u].key
        BY DEF TypeOK
    <2>2. Told[u] = "nothing" /\ ~Visible(k) /\ Shown[k] = NoResult
        BY <1>3, <2>1 DEF Publish, KeyIsFree, Told, Shown, Key, TypeOK, Visible
    <2>3. /\ request' = request /\ entry' = [entry EXCEPT ![k] = u]
          /\ blob' = [blob EXCEPT ![u] = "available"]
        BY <1>3, <2>1 DEF Publish, Key
    <2>4. Visible(k)' /\ \A j \in Keys \ {k} : entry'[j] = entry[j] /\ (Visible(j)' <=> Visible(j))
        <3>1. u # NoUpload /\ \A j \in Keys : entry[j] # u
            BY <1>3, ServerAssumption
            DEF Publish, EntriesNameTheirPublisher, ServerAssumption
        <3>2. Visible(k)'
            BY <2>1, <2>3, <3>1 DEF Visible, TypeOK
        <3>3. \A j \in Keys \ {k} : entry'[j] = entry[j]
            BY <2>3 DEF TypeOK
        <3>4. \A j \in Keys \ {k} : Visible(j)' <=> Visible(j)
            BY <2>3, <3>1, <3>3 DEF Visible, TypeOK
        <3> QED BY <3>2, <3>3, <3>4
    <2>5. Shown' = [Shown EXCEPT ![k] = request[u].result]
        <3>1. Shown' = [j \in Keys |-> IF Visible(j)' THEN request[entry'[j]].result ELSE NoResult]
            BY <2>3 DEF Shown
        <3>2. entry'[k] = u
            BY <2>1, <2>3 DEF TypeOK
        <3>3. \A j \in Keys : Shown'[j] = IF j = k THEN request[u].result ELSE Shown[j]
            BY <2>4, <3>1, <3>2 DEF Shown
        <3> QED BY <3>1, <3>3 DEF Shown
    <2>6. Readable' = Readable \cup {k}
        BY <1>0, <2>4
    <2>7. Told' = [Told EXCEPT ![u] = "created"]
        BY <1>3 DEF Publish, Goto, Told, TypeOK
    <2>8. Store!Publish(u)
        BY <2>1, <2>2, <2>3, <2>5, <2>6, <2>7 DEF Store!Publish
    <2> QED BY <2>8 DEF Store!Next
<1>4. ASSUME NEW u \in Uploads, LosePublication(u) PROVE UNCHANGED Store!vars
    <2>1. \A k \in Keys : entry[k] # u
        BY <1>4, ServerAssumption
        DEF LosePublication, EntriesNameTheirPublisher, ServerAssumption
    <2>2. \A k \in Keys : Visible(k)' <=> Visible(k)
        BY <1>4, <2>1 DEF LosePublication, Visible, TypeOK
    <2>3. UNCHANGED <<request, entry, Told>>
        BY <1>4 DEF LosePublication, Goto, Told, TypeOK
    <2> QED BY <2>2, <2>3, SameView
<1>5. ASSUME NEW u \in Uploads, CleanupRow(u) \/ GcMark(u) \/ GcForget(u)
      PROVE  UNCHANGED Store!vars
    <2>1. \A k \in Keys : entry[k] # u
        BY <1>5, ServerAssumption DEF CleanupRow, GcMark, GcForget, EntriesNameTheirPublisher,
           CollectorHoldsGarbage, Referenced, ServerAssumption
    <2>2. \A k \in Keys : Visible(k)' <=> Visible(k)
        BY <1>5, <2>1 DEF CleanupRow, GcMark, GcForget, Visible, TypeOK
    <2>3. UNCHANGED <<request, entry, Told>>
        BY <1>5 DEF CleanupRow, GcMark, GcForget, handlerVars, Goto, Told, TypeOK
    <2> QED BY <2>2, <2>3, SameView
<1>6. ASSUME NEW r \in Readers, FetchFails(r) PROVE [Store!Next]_(Store!vars)
    <2>1. CASE blob' = blob
        BY <1>6, <2>1, SameView DEF FetchFails, handlerVars, Visible, Told
    <2>2. CASE blob' = [blob EXCEPT ![reading[r]] = "failed"]
        <3> DEFINE lost == {k \in Keys : entry[k] = reading[r]}
        <3>1. UNCHANGED <<request, entry, Told>>
            BY <1>6 DEF FetchFails, handlerVars, Told
        <3>2. \A k \in Keys : Visible(k)' <=> Visible(k) /\ k \notin lost
            BY <1>6, <2>2, <3>1 DEF FetchFails, Visible, TypeOK
        <3>3. Shown' = [k \in Keys |-> IF k \in lost THEN NoResult ELSE Shown[k]]
            BY <3>1, <3>2 DEF Shown
        <3>4. Readable' = Readable \ lost
            BY <1>0, <3>2
        <3>5. lost \in SUBSET Keys /\ Store!Withdraw(lost)
            BY <3>1, <3>3, <3>4 DEF Store!Withdraw
        <3> QED BY <3>5 DEF Store!Next
    <2> QED BY <1>6, <2>1, <2>2 DEF FetchFails
<1>7. ASSUME NEW past \in SUBSET Keys, GcEvict(past) PROVE Store!Next
    <2>1. UNCHANGED <<request, blob, Told>>
        BY <1>7 DEF GcEvict, handlerVars, Told
    <2>2. \A k \in Keys : Visible(k)' <=> Visible(k) /\ k \notin past
        BY <1>7, <2>1 DEF GcEvict, Visible, TypeOK
    <2>3. Shown' = [k \in Keys |-> IF k \in past THEN NoResult ELSE Shown[k]]
        BY <1>7, <2>1, <2>2 DEF GcEvict, Shown
    <2>4. Readable' = Readable \ past
        BY <1>0, <2>2
    <2>5. Store!Withdraw(past)
        BY <2>1, <2>3, <2>4 DEF Store!Withdraw
    <2> QED BY <2>5 DEF Store!Next
<1> QED BY <1>1, <1>2, <1>3, <1>4, <1>5, <1>6, <1>7, HiddenSteps

(* The server implements the first-writer-wins store. *)
THEOREM ServerImplementsStore == Spec => ImplementsStore
<1>1. Init => Store!Init
    BY DEF Init, Store!Init, Shown, Readable, Told, Visible
<1>2. IInv /\ IInv' /\ [Next]_vars => [Store!Next]_(Store!vars)
    BY StoreStep
<1> QED BY <1>1, <1>2, ServerInvariant, PTL DEF Spec, ImplementsStore, Store!Spec

--------------------------------------------------------------------------------
(* Who may ask. *)
(* The names of scopes: the shared one, a run's, a principal's. *)
AcPrincipals == {"legacy", "read", "write", "ci"}
AcRuns == {"any"} \cup {c.run : c \in AcClaims}
AcScopeNames ==
    {AcShared} \cup [kind : {"run"}, key : AcRuns] \cup [kind : {"private"}, key : AcPrincipals]
AcRowRecords ==
    [principal : AcPrincipals, may : SUBSET (AcKinds \X BOOLEAN), expires : Nat, run : AcRuns,
     revoked : BOOLEAN]
AcUploadRecords ==
    {AcNone} \cup [at : {"scope", "active", "done"}, scope : AcScopeNames, until : Nat]

(* What the tables of scopes, sessions and entries hold. *)
AcShapes ==
    /\ DOMAIN acScopes \subseteq AcScopeNames
    /\ acUploads \in [AcUploads -> AcUploadRecords]
    /\ \A e \in acEntries : e.scope \in AcScopeNames

(* Whose the tokens are: a static token is of one of the three static principals, and
   each of these has one token at the most from the step of the start on that puts it
   in place. *)
AcRowsAreOwned ==
    /\ acAt # "down" => acConfig \in AcConfigs
    /\ \A t \in DOMAIN acRows :
         /\ acRows[t] \in AcRowRecords
         /\ IF t \in AcTokens
            THEN acRows[t].principal \in {"legacy", "read", "write"} /\ acRows[t].expires = 0
            ELSE acRows[t].principal = "ci"
    /\ acAt \in {"read", "write", "serving"} =>
         \A t \in DOMAIN acRows : acRows[t].principal = "legacy" => acRows[t].revoked
    /\ acAt \in {"write", "serving"} =>
         /\ acConfig.read \in DOMAIN acRows
         /\ acRows[acConfig.read] = AcRow("read", AcRead, 0, "any")
         /\ \A t \in DOMAIN acRows : acRows[t].principal = "read" => t = acConfig.read
    /\ acAt = "serving" =>
         /\ acConfig.write \in DOMAIN acRows
         /\ acRows[acConfig.write] = AcRow("write", AcWrite, 0, "any")
         /\ \A t \in DOMAIN acRows : acRows[t].principal = "write" => t = acConfig.write

(* The life of a scope: only a run's ends, and never later than if it were used now. *)
AcScopesLive ==
    \A s \in DOMAIN acScopes :
        IF s.kind = "run" THEN acScopes[s] \in 1..(acNow + AcScopeLife) ELSE acScopes[s] = 0

(* A scope outlives the sessions in it: one that was just ensured has its whole life
   before it, and an active session is over before its scope is. *)
AcScopesOutlive ==
    \A u \in AcUploads :
        /\ acUploads[u].at = "scope" /\ acUploads[u].scope \in DOMAIN acScopes
             => acScopes[acUploads[u].scope] \in {0, acNow + AcScopeLife}
        /\ acUploads[u].at = "active"
             => /\ acUploads[u].scope \in DOMAIN acScopes
                /\ acScopes[acUploads[u].scope] # 0
                     => acUploads[u].until < acScopes[acUploads[u].scope]

(* A pass has expired the sessions that were overdue before it looks at the scopes. *)
AcPassIsOrdered ==
    acGc \in {"entries", "scopes"} =>
        \A u \in AcActive : acUploads[u].until >= acNow

--------------------------------------------------------------------------------
(* The tables. *)

(* What the rows of the static tokens are made of. *)
LEMMA StaticRights ==
    /\ AcRead \in SUBSET (AcKinds \X BOOLEAN) /\ AcWrite \in SUBSET (AcKinds \X BOOLEAN)
    /\ "any" \in AcRuns /\ 0 \in Nat
    /\ {"legacy", "read", "write", "ci"} \subseteq AcPrincipals
<1>. DEFINE rights == AcKinds \X BOOLEAN
<1>0. "shared" \in AcKinds
  BY DEF AcKinds
<1>1. <<"shared", FALSE>> \in rights /\ <<"shared", TRUE>> \in rights
  BY <1>0
<1>. HIDE DEF rights
<1>2. AcRead \in SUBSET rights /\ AcWrite \in SUBSET rights
  BY <1>1 DEF AcRead, AcWrite
<1>3. "any" \in AcRuns /\ {"legacy", "read", "write", "ci"} \subseteq AcPrincipals
  BY DEF AcRuns, AcPrincipals
<1>. QED
  BY <1>2, <1>3 DEF rights

(* The static tokens that were put in place stay, and no other gets their place. *)
LEMMA RowsStay ==
    ASSUME AcRowsAreOwned, AcTypeOK, [AcNext]_acVars
    PROVE  AcRowsAreOwned'
<1>1. ASSUME UNCHANGED <<acAt, acConfig, acRows>>
      PROVE  AcRowsAreOwned'
  BY <1>1 DEF AcRowsAreOwned
<1>2. ASSUME AcStart
      PROVE  AcRowsAreOwned'
  BY <1>2 DEF AcStart, AcRowsAreOwned
<1>3. ASSUME AcDisableLegacy
      PROVE  AcRowsAreOwned'
  <2>1. /\ DOMAIN acRows' = DOMAIN acRows /\ acAt' = "read"
        /\ acConfig' \in AcConfigs
    BY <1>3 DEF AcDisableLegacy, AcRowsAreOwned
  <2>2. ASSUME NEW t \in DOMAIN acRows
        PROVE  /\ acRows'[t] \in AcRowRecords
               /\ acRows'[t].principal = acRows[t].principal
               /\ acRows'[t].expires = acRows[t].expires
               /\ acRows[t].principal = "legacy" => acRows'[t].revoked
    BY <1>3 DEF AcDisableLegacy, AcRowsAreOwned, AcRowRecords
  <2>. QED
    BY <2>1, <2>2 DEF AcRowsAreOwned
<1>4. ASSUME AcUpsertRead
      PROVE  AcRowsAreOwned'
  <2>. DEFINE kept == {t \in DOMAIN acRows : acRows[t].principal # "read"}
              row == AcRow("read", AcRead, 0, "any")
  <2>1. /\ acAt = "read" /\ acAt' = "write" /\ acConfig' = acConfig /\ acConfig \in AcConfigs
        /\ acRows' = AcPut(AcKeep(acRows, kept), acConfig.read, row)
        /\ acConfig.read \in AcTokens
    BY <1>4, AcAssumption DEF AcUpsertRead, AcUpserted, AcRowsAreOwned
  <2>2. /\ row \in AcRowRecords /\ row.principal = "read" /\ row.expires = 0
        /\ ~row.revoked
    BY StaticRights DEF AcRow, AcRowRecords
  <2>3. /\ DOMAIN acRows' = kept \cup {acConfig.read}
        /\ acRows'[acConfig.read] = row
        /\ \A t \in kept : t # acConfig.read => acRows'[t] = acRows[t]
    BY <2>1 DEF AcPut, AcKeep
  <2>4. \A t \in DOMAIN acRows' : acRows'[t].principal = "read" => t = acConfig.read
    BY <2>3
  <2>5. \A t \in DOMAIN acRows' : acRows'[t].principal = "legacy" => acRows'[t].revoked
    BY <2>1, <2>2, <2>3 DEF AcRowsAreOwned
  <2>6. \A t \in DOMAIN acRows' :
          /\ acRows'[t] \in AcRowRecords
          /\ IF t \in AcTokens
             THEN /\ acRows'[t].principal \in {"legacy", "read", "write"}
                  /\ acRows'[t].expires = 0
             ELSE acRows'[t].principal = "ci"
    BY <2>1, <2>2, <2>3 DEF AcRowsAreOwned
  <2>. HIDE DEF row
  <2>. QED
    BY <2>1, <2>3, <2>4, <2>5, <2>6 DEF AcRowsAreOwned, row
<1>5. ASSUME AcUpsertWrite
      PROVE  AcRowsAreOwned'
  <2>. DEFINE kept == {t \in DOMAIN acRows : acRows[t].principal # "write"}
              row == AcRow("write", AcWrite, 0, "any")
              read == AcRow("read", AcRead, 0, "any")
  <2>1. /\ acAt = "write" /\ acAt' = "serving" /\ acConfig' = acConfig
        /\ acConfig \in AcConfigs
        /\ acRows' = AcPut(AcKeep(acRows, kept), acConfig.write, row)
        /\ acConfig.write \in AcTokens /\ acConfig.read # acConfig.write
    BY <1>5, AcAssumption DEF AcUpsertWrite, AcUpserted, AcRowsAreOwned
  <2>2. /\ row \in AcRowRecords /\ row.principal = "write" /\ row.expires = 0
        /\ ~row.revoked /\ read.principal = "read"
    BY StaticRights DEF AcRow, AcRowRecords
  <2>3. /\ DOMAIN acRows' = kept \cup {acConfig.write}
        /\ acRows'[acConfig.write] = row
        /\ \A t \in kept : t # acConfig.write => acRows'[t] = acRows[t]
    BY <2>1 DEF AcPut, AcKeep
  <2>4. /\ acConfig.read \in DOMAIN acRows /\ acRows[acConfig.read] = read
        /\ \A t \in DOMAIN acRows : acRows[t].principal = "read" => t = acConfig.read
    BY <2>1 DEF AcRowsAreOwned
  <2>5. acConfig.read \in kept
    BY <2>2, <2>4
  <2>6. \A t \in DOMAIN acRows' : /\ acRows'[t].principal = "write" => t = acConfig.write
                                  /\ acRows'[t].principal = "read" => t = acConfig.read
    BY <2>2, <2>3, <2>4
  <2>7. \A t \in DOMAIN acRows' : acRows'[t].principal = "legacy" => acRows'[t].revoked
    BY <2>1, <2>2, <2>3 DEF AcRowsAreOwned
  <2>8. \A t \in DOMAIN acRows' :
          /\ acRows'[t] \in AcRowRecords
          /\ IF t \in AcTokens
             THEN /\ acRows'[t].principal \in {"legacy", "read", "write"}
                  /\ acRows'[t].expires = 0
             ELSE acRows'[t].principal = "ci"
    BY <2>1, <2>2, <2>3 DEF AcRowsAreOwned
  <2>9. acRows'[acConfig.read] = read /\ acConfig.read \in DOMAIN acRows'
    BY <2>1, <2>3, <2>4, <2>5
  <2>. HIDE DEF row, read
  <2>. QED
    BY <2>1, <2>3, <2>6, <2>7, <2>8, <2>9 DEF AcRowsAreOwned, row, read
<1>6. ASSUME AcStop
      PROVE  AcRowsAreOwned'
  BY <1>6 DEF AcStop, AcRowsAreOwned
<1>7. ASSUME NEW c \in AcClaims, AcExchange(c)
      PROVE  AcRowsAreOwned'
  <2>1. PICK rule \in AcRules :
          acRows' = AcPut(acRows, c.id, AcRow("ci", AcGranted(rule, c), acNow + 1, c.run))
    BY <1>7 DEF AcExchange
  <2>. DEFINE row == AcRow("ci", AcGranted(rule, c), acNow + 1, c.run)
  <2>2. row \in AcRowRecords /\ row.principal = "ci"
    <3>1. AcGranted(rule, c) \in SUBSET (AcKinds \X BOOLEAN)
      BY AcAssumption DEF AcGranted
    <3>2. acNow + 1 \in Nat /\ c.run \in AcRuns /\ "ci" \in AcPrincipals
      BY DEF AcTypeOK, AcRuns, AcPrincipals
    <3>. QED
      BY <3>1, <3>2 DEF AcRow, AcRowRecords
  <2>3. /\ DOMAIN acRows' = DOMAIN acRows \cup {c.id} /\ acRows'[c.id] = row
        /\ \A t \in DOMAIN acRows : t # c.id => acRows'[t] = acRows[t]
    BY <2>1 DEF AcPut, AcKeep
  <2>4. /\ acAt = "serving" /\ acAt' = acAt /\ acConfig' = acConfig
        /\ acConfig \in AcConfigs /\ c.id \notin DOMAIN acRows /\ c.id \notin AcTokens
    BY <1>7, AcAssumption DEF AcExchange, AcSame, AcRowsAreOwned
  <2>. HIDE DEF row
  <2>. QED
    BY <2>2, <2>3, <2>4 DEF AcRowsAreOwned
<1>8. ASSUME AcGcTokens
      PROVE  AcRowsAreOwned'
  <2>. DEFINE kept == {t \in DOMAIN acRows :
                         acRows[t].expires = 0 \/ acRows[t].expires > acNow}
  <2>1. /\ DOMAIN acRows' = kept /\ \A t \in kept : acRows'[t] = acRows[t]
        /\ acAt' = acAt /\ acConfig' = acConfig
    BY <1>8 DEF AcGcTokens, AcGcSame, AcKeep
  <2>2. /\ acAt \in {"write", "serving"} => acConfig.read \in kept
        /\ acAt = "serving" => acConfig.write \in kept
    BY AcAssumption DEF AcRowsAreOwned
  <2>. HIDE DEF kept
  <2>3. kept \subseteq DOMAIN acRows
    BY DEF kept
  <2>. QED
    BY <2>1, <2>2, <2>3 DEF AcRowsAreOwned
<1>. QED
  BY <1>1, <1>2, <1>3, <1>4, <1>5, <1>6, <1>7, <1>8
  DEF AcNext, acVars, AcTick, AcPutBegins, AcReserve, AcPublish, AcReport, AcGcSessions,
      AcGcEntries, AcGcScopes, AcSame, AcGcSame

--------------------------------------------------------------------------------
(* Scopes, sessions and what they reserve. *)
AcStore ==
    /\ AcShapes
    /\ AcScopesLive
    /\ AcScopesOutlive
    /\ AcPassIsOrdered
    /\ AcReservationsAreHeld

LEMMA ScopesAreNamed ==
    ASSUME AcRowsAreOwned, NEW t \in DOMAIN acRows
    PROVE  AcScopesOf(t) \subseteq AcScopeNames
<1>1. acRows[t].run \in AcRuns /\ acRows[t].principal \in AcPrincipals
  BY DEF AcRowsAreOwned, AcRowRecords
<1>. QED
  BY <1>1 DEF AcScopesOf, AcScopeNames

(* The session of one upload changes. *)
LEMMA OneSessionChanges ==
    ASSUME AcShapes, NEW u \in AcUploads, NEW v \in AcUploadRecords,
           acUploads' = [acUploads EXCEPT ![u] = v]
    PROVE  /\ acUploads' \in [AcUploads -> AcUploadRecords]
           /\ acUploads'[u] = v
           /\ \A w \in AcUploads : w # u => acUploads'[w] = acUploads[w]
           /\ v.at = "active" => AcActive' = AcActive \cup {u}
           /\ v.at # "active" => AcActive' = AcActive \ {u}
<1>1. /\ acUploads' \in [AcUploads -> AcUploadRecords]
      /\ acUploads'[u] = v
      /\ \A w \in AcUploads : w # u => acUploads'[w] = acUploads[w]
  BY DEF AcShapes
<1>. QED
  BY <1>1 DEF AcActive

LEMMA ActiveIsCounted ==
    /\ IsFiniteSet(AcActive) /\ Cardinality(AcActive) \in Nat
    /\ Cardinality(AcActive) <= Cardinality(AcUploads)
    /\ Cardinality(AcUploads) \in Nat
<1>1. AcActive \in SUBSET AcUploads
  BY DEF AcActive
<1>. QED
  BY <1>1, AcAssumption, FS_Subset, FS_CardinalityType

(* ensure_scope never takes life from a scope. *)
LEMMA EnsuredScopesLive ==
    ASSUME AcTypeOK, AcShapes, AcScopesLive, NEW scope \in AcScopeNames,
           acScopes' = AcEnsured(scope), acNow' = acNow
    PROVE  /\ DOMAIN acScopes' = DOMAIN acScopes \cup {scope}
           /\ DOMAIN acScopes' \subseteq AcScopeNames
           /\ AcScopesLive'
           /\ acScopes'[scope] \in {0, acNow + AcScopeLife}
           /\ \A s \in DOMAIN acScopes :
                /\ acScopes[s] \in {0, acNow + AcScopeLife} => acScopes'[s] = acScopes[s]
                /\ acScopes'[s] # 0 => acScopes[s] # 0 /\ acScopes[s] <= acScopes'[s]
<1>. DEFINE life == IF scope.kind = "run" THEN acNow + AcScopeLife ELSE 0
<1>1. /\ DOMAIN acScopes' = DOMAIN acScopes \cup {scope} /\ acScopes'[scope] = life
      /\ \A s \in DOMAIN acScopes : s # scope => acScopes'[s] = acScopes[s]
  BY DEF AcEnsured, AcPut
<1>2. acNow \in Nat /\ acNow > 0 /\ AcScopeLife \in Nat
  BY AcAssumption DEF AcTypeOK
<1>3. acScopes'[scope] \in {0, acNow + AcScopeLife}
  BY <1>1
<1>4. AcScopesLive'
  BY <1>1, <1>2 DEF AcScopesLive
<1>5. ASSUME NEW s \in DOMAIN acScopes
      PROVE  /\ acScopes[s] \in {0, acNow + AcScopeLife} => acScopes'[s] = acScopes[s]
             /\ acScopes'[s] # 0 => acScopes[s] # 0 /\ acScopes[s] <= acScopes'[s]
  BY <1>1, <1>2 DEF AcScopesLive
<1>. QED
  BY <1>1, <1>3, <1>4, <1>5 DEF AcShapes

(* What garbage collection takes is in no scope that a session is in. *)
LEMMA NoSessionIsDoomed ==
    ASSUME AcTypeOK, AcStore, acGc = "scopes", NEW u \in AcUploads,
           acUploads[u].at \in {"scope", "active"}
    PROVE  acUploads[u].scope \notin AcDoomed
<1>1. AcSessionLife \in Nat /\ AcScopeLife \in Nat /\ AcScopeLife > 0 /\ acNow \in Nat
  BY AcAssumption DEF AcTypeOK
<1>2. CASE acUploads[u].at = "scope"
  BY <1>1, <1>2 DEF AcStore, AcScopesOutlive, AcDoomed
<1>3. CASE acUploads[u].at = "active"
  <2>1. acUploads[u].until >= acNow /\ acUploads[u].until \in Nat
    BY <1>3 DEF AcStore, AcPassIsOrdered, AcActive, AcShapes, AcUploadRecords, AcNone
  <2>2. \A s \in DOMAIN acScopes : acScopes[s] \in Nat
    BY DEF AcTypeOK, AcStore, AcScopesLive
  <2>. QED
    BY <1>1, <1>3, <2>1, <2>2 DEF AcStore, AcScopesOutlive, AcDoomed
<1>. QED
  BY <1>2, <1>3

(* No step of a request or of a collection leaves a session without its scope, or a
   reservation without its session. *)
LEMMA StoreStays ==
    ASSUME AcTypeOK, AcRowsAreOwned, AcStore, [AcNext]_acVars
    PROVE  AcStore'
<1>. USE DEF AcStore
<1>a. /\ AcSessionLife \in Nat /\ AcScopeLife \in Nat /\ AcSessionLife < AcScopeLife
      /\ acNow \in Nat /\ acNow > 0
  BY AcAssumption DEF AcTypeOK
<1>1. ASSUME UNCHANGED <<acGc, acNow, acScopes, acEvents, acUploads, acEntries, acReserved>>
      PROVE  AcStore'
  BY <1>1
  DEF AcShapes, AcScopesLive, AcScopesOutlive, AcPassIsOrdered, AcReservationsAreHeld, AcActive
<1>2. ASSUME AcStop
      PROVE  AcStore'
  <2>1. /\ UNCHANGED <<acScopes, acEntries, acReserved, acNow>> /\ acGc' = "idle"
        /\ acUploads' = [u \in AcUploads |->
             IF acUploads[u].at = "scope" THEN AcNone ELSE acUploads[u]]
    BY <1>2 DEF AcStop
  <2>2. acUploads' \in [AcUploads -> AcUploadRecords]
    BY <2>1 DEF AcShapes, AcUploadRecords
  <2>3. \A u \in AcUploads : /\ acUploads'[u].at # "scope"
                             /\ (acUploads'[u].at = "active" \/ acUploads[u].at = "active")
                                  => acUploads'[u] = acUploads[u]
    BY <2>1 DEF AcNone
  <2>4. AcActive' = AcActive
    BY <2>3 DEF AcActive
  <2>5. AcShapes' /\ AcScopesLive' /\ AcPassIsOrdered'
    BY <2>1, <2>2 DEF AcShapes, AcScopesLive, AcPassIsOrdered
  <2>6. AcScopesOutlive'
    BY <2>1, <2>3 DEF AcScopesOutlive
  <2>7. AcReservationsAreHeld'
    BY <2>1, <2>3, <2>4 DEF AcReservationsAreHeld, AcActive
  <2>. QED
    BY <2>5, <2>6, <2>7
<1>3. ASSUME AcTick
      PROVE  AcStore'
  <2>1. /\ AcSameData /\ acNow' = acNow + 1 /\ acGc = "idle" /\ acGc' = acGc
        /\ \A u \in AcUploads : acUploads[u].at # "scope"
    BY <1>3 DEF AcTick
  <2>2. AcShapes' /\ AcPassIsOrdered' /\ AcReservationsAreHeld'
    BY <2>1 DEF AcSameData, AcShapes, AcPassIsOrdered, AcReservationsAreHeld, AcActive
  <2>3. AcScopesLive'
    BY <2>1, <1>a DEF AcSameData, AcScopesLive
  <2>4. AcScopesOutlive'
    BY <2>1 DEF AcSameData, AcScopesOutlive
  <2>. QED
    BY <2>2, <2>3, <2>4
<1>4. ASSUME NEW u \in AcUploads, NEW t \in DOMAIN acRows, AcPutBegins(u, t)
      PROVE  AcStore'
  <2>1. PICK scope \in AcScopesOf(t) :
          /\ acScopes' = AcEnsured(scope)
          /\ acUploads' =
               [acUploads EXCEPT ![u] = [at |-> "scope", scope |-> scope, until |-> 0]]
    BY <1>4 DEF AcPutBegins
  <2>. DEFINE v == [at |-> "scope", scope |-> scope, until |-> 0]
  <2>2. /\ acUploads[u] = AcNone
        /\ UNCHANGED <<acNow, acGc, acEntries, acReserved>>
    BY <1>4 DEF AcPutBegins, AcSame
  <2>3. scope \in AcScopeNames
    BY ScopesAreNamed
  <2>4. v \in AcUploadRecords /\ v.at = "scope" /\ v.scope = scope
    BY <2>3 DEF AcUploadRecords
  <2>5. /\ DOMAIN acScopes' = DOMAIN acScopes \cup {scope}
        /\ DOMAIN acScopes' \subseteq AcScopeNames
        /\ AcScopesLive'
        /\ acScopes'[scope] \in {0, acNow + AcScopeLife}
        /\ \A s \in DOMAIN acScopes :
             /\ acScopes[s] \in {0, acNow + AcScopeLife} => acScopes'[s] = acScopes[s]
             /\ acScopes'[s] # 0 => acScopes[s] # 0 /\ acScopes[s] <= acScopes'[s]
    BY <2>1, <2>2, <2>3, EnsuredScopesLive
  <2>. HIDE DEF v
  <2>6. /\ acUploads' \in [AcUploads -> AcUploadRecords]
        /\ acUploads'[u] = v
        /\ \A w \in AcUploads : w # u => acUploads'[w] = acUploads[w]
        /\ AcActive' = AcActive \ {u}
    BY <2>1, <2>4, OneSessionChanges DEF v
  <2>7. AcActive' = AcActive
    BY <2>2, <2>6 DEF AcActive, AcNone
  <2>8. AcShapes'
    BY <2>2, <2>5, <2>6 DEF AcShapes
  <2>9. AcPassIsOrdered'
    BY <2>2, <2>6, <2>7 DEF AcPassIsOrdered, AcActive
  <2>10. AcReservationsAreHeld'
    BY <2>2, <2>4, <2>5, <2>6, <2>7 DEF AcReservationsAreHeld, AcActive
  <2>11. ASSUME NEW w \in AcUploads, acUploads'[w].at = "scope",
                acUploads'[w].scope \in DOMAIN acScopes'
         PROVE  acScopes'[acUploads'[w].scope] \in {0, acNow' + AcScopeLife}
    BY <2>2, <2>4, <2>5, <2>6, <2>11 DEF AcScopesOutlive
  <2>12. ASSUME NEW w \in AcUploads, acUploads'[w].at = "active"
         PROVE  /\ acUploads'[w].scope \in DOMAIN acScopes'
                /\ acScopes'[acUploads'[w].scope] # 0
                     => acUploads'[w].until < acScopes'[acUploads'[w].scope]
    <3>1. w # u /\ acUploads'[w] = acUploads[w] /\ acUploads[w].at = "active"
      BY <2>4, <2>6, <2>12
    <3>2. acUploads[w].scope \in DOMAIN acScopes /\ acUploads[w].until \in Nat
      BY <3>1 DEF AcScopesOutlive, AcShapes, AcUploadRecords, AcNone
    <3>3. acScopes[acUploads[w].scope] \in Nat /\ acScopes'[acUploads[w].scope] \in Nat
      BY <1>a, <2>2, <2>5, <3>2 DEF AcScopesLive
    <3>. QED
      BY <2>5, <3>1, <3>2, <3>3 DEF AcScopesOutlive
  <2>13. AcScopesOutlive'
    BY <2>11, <2>12 DEF AcScopesOutlive
  <2>. QED
    BY <2>5, <2>8, <2>9, <2>10, <2>13
<1>5. ASSUME NEW u \in AcUploads, AcReserve(u)
      PROVE  AcStore'
  <2>. DEFINE scope == acUploads[u].scope
  <2>1. /\ acUploads[u].at = "scope"
        /\ UNCHANGED <<acNow, acGc, acEntries, acScopes>>
    BY <1>5 DEF AcReserve, AcSame
  <2>2. scope \in AcScopeNames
    BY <2>1 DEF AcShapes, AcUploadRecords, AcNone
  <2>3. AcScopesLive'
    BY <2>1 DEF AcScopesLive
  <2>4. CASE scope \in DOMAIN acScopes
    <3>. DEFINE v == [at |-> "active", scope |-> scope, until |-> acNow + AcSessionLife]
    <3>1. acUploads' = [acUploads EXCEPT ![u] = v] /\ acReserved' = acReserved + 1
      BY <1>5, <2>4 DEF AcReserve
    <3>2. /\ v \in AcUploadRecords /\ v.at = "active" /\ v.scope = scope
          /\ v.until = acNow + AcSessionLife
      BY <1>a, <2>2 DEF AcUploadRecords
    <3>. HIDE DEF v
    <3>3. /\ acUploads' \in [AcUploads -> AcUploadRecords]
          /\ acUploads'[u] = v
          /\ \A w \in AcUploads : w # u => acUploads'[w] = acUploads[w]
          /\ AcActive' = AcActive \cup {u}
      BY <3>1, <3>2, OneSessionChanges
    <3>4. AcShapes'
      BY <2>1, <3>3 DEF AcShapes
    <3>5. AcPassIsOrdered'
      BY <1>a, <2>1, <3>2, <3>3 DEF AcPassIsOrdered, AcActive
    <3>6. acReserved' = Cardinality(AcActive')
      <4>1. u \notin AcActive
        BY <2>1 DEF AcActive
      <4>2. Cardinality(AcActive \cup {u}) = Cardinality(AcActive) + 1
        BY <4>1, ActiveIsCounted, FS_AddElement
      <4>. QED
        BY <3>1, <3>3, <4>2 DEF AcReservationsAreHeld
    <3>7. AcReservationsAreHeld'
      BY <2>1, <2>4, <3>2, <3>3, <3>6 DEF AcReservationsAreHeld, AcActive
    <3>8. acScopes[scope] \in {0, acNow + AcScopeLife}
      BY <2>1, <2>4 DEF AcScopesOutlive
    <3>. HIDE DEF scope
    <3>9. AcScopesOutlive'
      BY <1>a, <2>1, <2>4, <3>2, <3>3, <3>8 DEF AcScopesOutlive
    <3>. QED
      BY <2>3, <3>4, <3>5, <3>7, <3>9
  <2>5. CASE scope \notin DOMAIN acScopes
    <3>1. acUploads' = [acUploads EXCEPT ![u] = AcNone] /\ acReserved' = acReserved
      BY <1>5, <2>5 DEF AcReserve
    <3>2. AcNone \in AcUploadRecords /\ AcNone.at = "none"
      BY DEF AcUploadRecords, AcNone
    <3>3. /\ acUploads' \in [AcUploads -> AcUploadRecords]
          /\ acUploads'[u] = AcNone
          /\ \A w \in AcUploads : w # u => acUploads'[w] = acUploads[w]
          /\ AcActive' = AcActive \ {u}
      BY <3>1, <3>2, OneSessionChanges
    <3>4. AcActive' = AcActive
      BY <2>1, <3>3 DEF AcActive
    <3>5. AcShapes' /\ AcPassIsOrdered' /\ AcReservationsAreHeld'
      BY <2>1, <3>1, <3>2, <3>3, <3>4
      DEF AcShapes, AcPassIsOrdered, AcReservationsAreHeld, AcActive
    <3>6. AcScopesOutlive'
      BY <2>1, <3>2, <3>3 DEF AcScopesOutlive
    <3>. QED
      BY <2>3, <3>5, <3>6
  <2>. QED
    BY <2>4, <2>5
<1>6. ASSUME NEW u \in AcUploads, AcPublish(u)
      PROVE  AcStore'
  <2>. DEFINE v == [acUploads[u] EXCEPT !.at = "done"]
  <2>1. /\ acUploads[u].at = "active" /\ acReserved' = acReserved - 1
        /\ UNCHANGED <<acNow, acGc, acScopes>>
        /\ acUploads' = [acUploads EXCEPT ![u] = v]
    BY <1>6 DEF AcPublish, AcSame, AcShapes
  <2>2. /\ acUploads[u].scope \in AcScopeNames /\ acUploads[u].scope \in DOMAIN acScopes
    BY <2>1 DEF AcShapes, AcUploadRecords, AcNone, AcReservationsAreHeld, AcActive
  <2>3. v \in AcUploadRecords /\ v.at = "done"
    BY <2>1 DEF AcShapes, AcUploadRecords, AcNone
  <2>. HIDE DEF v
  <2>4. /\ acUploads' \in [AcUploads -> AcUploadRecords]
        /\ acUploads'[u] = v
        /\ \A w \in AcUploads : w # u => acUploads'[w] = acUploads[w]
        /\ AcActive' = AcActive \ {u}
    BY <2>1, <2>3, OneSessionChanges
  <2>5. \A e \in acEntries' : e.scope \in AcScopeNames /\ e.scope \in DOMAIN acScopes
    BY <1>6, <2>2 DEF AcPublish, AcShapes, AcReservationsAreHeld
  <2>6. AcShapes' /\ AcScopesLive' /\ AcPassIsOrdered'
    BY <2>1, <2>4, <2>5 DEF AcShapes, AcScopesLive, AcPassIsOrdered, AcActive
  <2>7. acReserved' = Cardinality(AcActive')
    <3>1. u \in AcActive
      BY <2>1 DEF AcActive
    <3>2. Cardinality(AcActive \ {u}) = Cardinality(AcActive) - 1
      BY <3>1, ActiveIsCounted, FS_RemoveElement
    <3>. QED
      BY <2>1, <2>4, <3>2 DEF AcReservationsAreHeld
  <2>8. AcReservationsAreHeld'
    BY <2>1, <2>3, <2>4, <2>5, <2>7 DEF AcReservationsAreHeld, AcActive
  <2>9. AcScopesOutlive'
    BY <2>1, <2>3, <2>4 DEF AcScopesOutlive
  <2>. QED
    BY <2>6, <2>8, <2>9
<1>7. ASSUME NEW t \in DOMAIN acRows, AcReport(t)
      PROVE  AcStore'
  <2>1. PICK scope \in AcScopesOf(t) : acScopes' = AcEnsured(scope)
    BY <1>7 DEF AcReport
  <2>2. UNCHANGED <<acNow, acGc, acEntries, acReserved, acUploads>>
    BY <1>7 DEF AcReport, AcSame
  <2>3. scope \in AcScopeNames
    BY ScopesAreNamed
  <2>4. /\ DOMAIN acScopes' = DOMAIN acScopes \cup {scope}
        /\ DOMAIN acScopes' \subseteq AcScopeNames
        /\ AcScopesLive'
        /\ acScopes'[scope] \in {0, acNow + AcScopeLife}
        /\ \A s \in DOMAIN acScopes :
             /\ acScopes[s] \in {0, acNow + AcScopeLife} => acScopes'[s] = acScopes[s]
             /\ acScopes'[s] # 0 => acScopes[s] # 0 /\ acScopes[s] <= acScopes'[s]
    BY <2>1, <2>2, <2>3, EnsuredScopesLive
  <2>5. AcShapes' /\ AcPassIsOrdered' /\ AcReservationsAreHeld'
    BY <2>2, <2>4 DEF AcShapes, AcPassIsOrdered, AcReservationsAreHeld, AcActive
  <2>6. ASSUME NEW w \in AcUploads, acUploads'[w].at = "scope",
               acUploads'[w].scope \in DOMAIN acScopes'
        PROVE  acScopes'[acUploads'[w].scope] \in {0, acNow' + AcScopeLife}
    BY <2>2, <2>4, <2>6 DEF AcScopesOutlive
  <2>7. ASSUME NEW w \in AcUploads, acUploads'[w].at = "active"
        PROVE  /\ acUploads'[w].scope \in DOMAIN acScopes'
               /\ acScopes'[acUploads'[w].scope] # 0
                    => acUploads'[w].until < acScopes'[acUploads'[w].scope]
    <3>1. /\ acUploads'[w] = acUploads[w] /\ acUploads[w].at = "active"
          /\ acUploads[w].scope \in DOMAIN acScopes /\ acUploads[w].until \in Nat
      BY <2>2, <2>7 DEF AcScopesOutlive, AcShapes, AcUploadRecords, AcNone
    <3>2. acScopes[acUploads[w].scope] \in Nat /\ acScopes'[acUploads[w].scope] \in Nat
      BY <1>a, <2>2, <2>4, <3>1 DEF AcScopesLive
    <3>. QED
      BY <2>4, <3>1, <3>2 DEF AcScopesOutlive
  <2>8. AcScopesOutlive'
    BY <2>6, <2>7 DEF AcScopesOutlive
  <2>. QED
    BY <2>4, <2>5, <2>8
<1>8. ASSUME AcGcTokens
      PROVE  AcStore'
  BY <1>8 DEF AcGcTokens, AcGcSame, AcShapes, AcScopesLive, AcScopesOutlive, AcPassIsOrdered,
              AcReservationsAreHeld, AcActive
<1>9. ASSUME AcGcSessions
      PROVE  AcStore'
  <2>1. /\ UNCHANGED <<acNow, acEntries, acScopes>>
        /\ acUploads' = [u \in AcUploads |->
             IF u \in AcOverdue THEN [acUploads[u] EXCEPT !.at = "done"] ELSE acUploads[u]]
        /\ acReserved' = acReserved - Cardinality(AcOverdue)
    BY <1>9 DEF AcGcSessions, AcGcSame, AcExpired
  <2>2. AcOverdue = {u \in AcActive : acUploads[u].until <= acNow}
    BY DEF AcOverdue, AcActive
  <2>3. ASSUME NEW u \in AcUploads
        PROVE  /\ u \in AcOverdue => acUploads'[u].at = "done"
               /\ u \notin AcOverdue => acUploads'[u] = acUploads[u]
               /\ acUploads'[u] \in AcUploadRecords
    <3>1. acUploads[u] \in AcUploadRecords
      BY DEF AcShapes
    <3>2. u \in AcOverdue => acUploads[u].at = "active"
      BY DEF AcOverdue
    <3>. QED
      BY <2>1, <3>1, <3>2 DEF AcUploadRecords, AcNone
  <2>4. acUploads' \in [AcUploads -> AcUploadRecords]
    BY <2>1, <2>3
  <2>5. AcActive' = AcActive \ AcOverdue
    BY <2>3 DEF AcActive
  <2>6. \A u \in AcActive' : acUploads'[u].until >= acNow
    <3>1. SUFFICES ASSUME NEW u \in AcActive'
                   PROVE  acUploads'[u].until >= acNow
      OBVIOUS
    <3>2. u \in AcUploads /\ u \in AcActive /\ u \notin AcOverdue
      BY <2>5 DEF AcActive
    <3>3. acUploads[u].until \in Nat /\ ~(acUploads[u].until <= acNow)
      BY <2>2, <3>2 DEF AcShapes, AcUploadRecords, AcNone, AcActive
    <3>. QED
      BY <1>a, <2>3, <3>2, <3>3
  <2>7. acReserved' = Cardinality(AcActive')
    <3>1. AcActive \cap AcOverdue = AcOverdue
      BY <2>2
    <3>2. Cardinality(AcActive \ AcOverdue) = Cardinality(AcActive) - Cardinality(AcOverdue)
      BY <3>1, ActiveIsCounted, FS_Difference
    <3>. QED
      BY <2>1, <2>5, <3>2 DEF AcReservationsAreHeld
  <2>8. AcShapes' /\ AcScopesLive'
    BY <2>1, <2>4 DEF AcShapes, AcScopesLive
  <2>9. AcPassIsOrdered'
    BY <2>1, <2>6 DEF AcPassIsOrdered
  <2>10. AcReservationsAreHeld'
    BY <2>1, <2>3, <2>5, <2>7 DEF AcReservationsAreHeld, AcActive
  <2>11. AcScopesOutlive'
    BY <2>1, <2>3 DEF AcScopesOutlive
  <2>. QED
    BY <2>8, <2>9, <2>10, <2>11
<1>10. ASSUME AcGcEntries
       PROVE  AcStore'
  BY <1>10 DEF AcGcEntries, AcGcSame, AcShapes, AcScopesLive, AcScopesOutlive, AcPassIsOrdered,
               AcReservationsAreHeld, AcActive
<1>11. ASSUME AcGcScopes
       PROVE  AcStore'
  <2>1. /\ UNCHANGED <<acNow, acEntries, acReserved>> /\ acGc = "scopes" /\ acGc' = "idle"
    BY <1>11 DEF AcGcScopes, AcGcSame
  <2>2. CASE AcDoomed \cap acEvents # {}
    <3>1. UNCHANGED <<acScopes, acUploads>>
      BY <1>11, <2>2 DEF AcGcScopes
    <3>. QED
      BY <2>1, <3>1 DEF AcShapes, AcScopesLive, AcScopesOutlive, AcPassIsOrdered,
                        AcReservationsAreHeld, AcActive
  <2>3. CASE AcDoomed \cap acEvents = {}
    <3>1. /\ DOMAIN acScopes' = DOMAIN acScopes \ AcDoomed
          /\ \A s \in DOMAIN acScopes \ AcDoomed : acScopes'[s] = acScopes[s]
      BY <1>11, <2>3 DEF AcGcScopes, AcKeep
    <3>2. acUploads' = [u \in AcUploads |->
                          IF acUploads[u].at = "active" /\ acUploads[u].scope \in AcDoomed
                          THEN [acUploads[u] EXCEPT !.at = "done"] ELSE acUploads[u]]
      BY <1>11, <2>3 DEF AcGcScopes
    <3>3. \A u \in AcUploads : acUploads[u].at \in {"scope", "active"}
                                 => acUploads[u].scope \notin AcDoomed
      BY <2>1, NoSessionIsDoomed
    <3>4. acUploads' = acUploads
      BY <3>2, <3>3 DEF AcShapes
    <3>5. \A e \in acEntries : e.scope \notin AcDoomed
      BY DEF AcDoomed
    <3>6. AcShapes' /\ AcScopesLive' /\ AcPassIsOrdered'
      BY <2>1, <3>1, <3>4 DEF AcShapes, AcScopesLive, AcPassIsOrdered, AcActive
    <3>7. AcScopesOutlive'
      BY <2>1, <3>1, <3>3, <3>4 DEF AcScopesOutlive
    <3>8. AcReservationsAreHeld'
      BY <2>1, <3>1, <3>3, <3>4, <3>5 DEF AcReservationsAreHeld, AcActive
    <3>. QED
      BY <3>6, <3>7, <3>8
  <2>. QED
    BY <2>2, <2>3
<1>. QED
  <2>1. CASE AcNext
    BY <2>1, <1>1, <1>2, <1>3, <1>4, <1>5, <1>6, <1>7, <1>8, <1>9, <1>10, <1>11
    DEF AcNext, AcStart, AcDisableLegacy, AcUpsertRead, AcUpsertWrite, AcExchange, AcSame,
        AcSameData
  <2>2. CASE UNCHANGED acVars
    BY <2>2, <1>1 DEF acVars
  <2>. QED
    BY <2>1, <2>2

--------------------------------------------------------------------------------
(* The types, and the theorems. *)
LEMMA AccessTypesStay ==
    ASSUME AcTypeOK, AcRowsAreOwned', AcStore', AcRowsAreOwned, AcStore, [AcNext]_acVars
    PROVE  AcTypeOK'
<1>1. /\ acAt' \in {"down", "legacy", "read", "write", "serving"}
      /\ acGc' \in {"idle", "sessions", "entries", "scopes"}
  BY DEF AcTypeOK, AcNext, acVars, AcStart, AcDisableLegacy, AcUpsertRead, AcUpsertWrite, AcStop,
      AcTick, AcExchange, AcPutBegins, AcReserve, AcPublish, AcReport, AcGcTokens, AcGcSessions,
      AcGcEntries, AcGcScopes, AcSame, AcGcSame
<1>a. acNow' \in 1..AcMaxTime
  <2>1. CASE AcTick
    BY <2>1, AcAssumption DEF AcTick, AcTypeOK
  <2>2. CASE acNow' = acNow
    BY <2>2 DEF AcTypeOK
  <2>. QED
    BY <2>1, <2>2
    DEF AcNext, acVars, AcStart, AcDisableLegacy, AcUpsertRead, AcUpsertWrite, AcStop,
        AcExchange, AcPutBegins, AcReserve, AcPublish, AcReport, AcGcTokens, AcGcSessions,
        AcGcEntries, AcGcScopes, AcSame, AcGcSame
<1>b. acStarts' \in 0..AcMaxStarts
  <2>1. CASE AcStart
    BY <2>1, AcAssumption DEF AcStart, AcTypeOK
  <2>2. CASE acStarts' = acStarts
    BY <2>2 DEF AcTypeOK
  <2>. QED
    BY <2>1, <2>2
    DEF AcNext, acVars, AcDisableLegacy, AcUpsertRead, AcUpsertWrite, AcStop, AcTick,
        AcExchange, AcPutBegins, AcReserve, AcPublish, AcReport, AcGcTokens, AcGcSessions,
        AcGcEntries, AcGcScopes, AcSame, AcGcSame
<1>2. DOMAIN acRows' \subseteq AcTokens \cup {c.id : c \in AcClaims}
  <2>1. ASSUME acRows' = acRows
        PROVE  DOMAIN acRows' \subseteq AcTokens \cup {c.id : c \in AcClaims}
    BY <2>1 DEF AcTypeOK
  <2>2. CASE AcDisableLegacy
    BY <2>2 DEF AcTypeOK, AcDisableLegacy
  <2>3. CASE AcUpsertRead
    <3>1. acConfig.read \in AcTokens
      BY <2>3, AcAssumption DEF AcUpsertRead, AcRowsAreOwned
    <3>. QED
      BY <2>3, <3>1 DEF AcTypeOK, AcUpsertRead, AcUpserted, AcPut, AcKeep
  <2>4. CASE AcUpsertWrite
    <3>1. acConfig.write \in AcTokens
      BY <2>4, AcAssumption DEF AcUpsertWrite, AcRowsAreOwned
    <3>. QED
      BY <2>4, <3>1 DEF AcTypeOK, AcUpsertWrite, AcUpserted, AcPut, AcKeep
  <2>5. ASSUME NEW c \in AcClaims, AcExchange(c)
        PROVE  DOMAIN acRows' \subseteq AcTokens \cup {d.id : d \in AcClaims}
    BY <2>5 DEF AcTypeOK, AcExchange, AcPut
  <2>6. CASE AcGcTokens
    BY <2>6 DEF AcTypeOK, AcGcTokens, AcKeep
  <2>. QED
    BY <2>1, <2>2, <2>3, <2>4, <2>5, <2>6
    DEF AcNext, acVars, AcStart, AcStop, AcTick, AcPutBegins, AcReserve, AcPublish, AcReport,
        AcGcSessions, AcGcEntries, AcGcScopes
<1>3. \A s \in DOMAIN acScopes' :
        s.kind \in AcKinds /\ acScopes'[s] \in 0..(AcMaxTime + AcScopeLife)
  <2>1. \A s \in AcScopeNames : s.kind \in AcKinds
    BY DEF AcScopeNames, AcShared, AcKinds
  <2>2. AcMaxTime \in Nat /\ AcScopeLife \in Nat
    BY AcAssumption
  <2>. QED
    BY <1>a, <2>1, <2>2 DEF AcStore, AcShapes, AcScopesLive
<1>4. \A u \in AcUploads : acUploads'[u].at \in {"none", "scope", "active", "done"}
  BY DEF AcStore, AcShapes, AcUploadRecords, AcNone
<1>5. acReserved' \in 0..Cardinality(AcUploads)
  <2>1. AcActive' \in SUBSET AcUploads
    BY DEF AcActive
  <2>2. /\ Cardinality(AcActive') \in Nat /\ Cardinality(AcUploads) \in Nat
        /\ Cardinality(AcActive') <= Cardinality(AcUploads)
    BY <2>1, AcAssumption, FS_Subset, FS_CardinalityType
  <2>. QED
    BY <2>2 DEF AcStore, AcReservationsAreHeld
<1>. QED
  BY <1>1, <1>a, <1>b, <1>2, <1>3, <1>4, <1>5 DEF AcTypeOK

(* The inductive invariant.  AcRowsAreOwned and AcStore speak of different tables; a step
   that uses one table to change another finds both here. *)
AcIInv == AcTypeOK /\ AcRowsAreOwned /\ AcStore

LEMMA AccessBegins == AcInit => AcIInv
<1>. SUFFICES ASSUME AcInit
              PROVE  AcIInv
  OBVIOUS
<1>1. AcRowsAreOwned
  <2>. DEFINE row == AcRow("legacy", AcWrite, 0, "any")
  <2>1. row \in AcRowRecords /\ row.principal = "legacy" /\ row.expires = 0
    BY StaticRights DEF AcRow, AcRowRecords
  <2>2. acAt = "down" /\ DOMAIN acRows = AcLegacy /\ \A t \in AcLegacy : acRows[t] = row
    BY DEF AcInit
  <2>. HIDE DEF row
  <2>. QED
    BY <2>1, <2>2, AcAssumption DEF AcRowsAreOwned
<1>2. /\ acScopes = [s \in {} |-> 0] /\ acEntries = {} /\ acReserved = 0 /\ acGc = "idle"
      /\ acUploads = [u \in AcUploads |-> AcNone]
  BY DEF AcInit
<1>3. AcActive = {}
  BY <1>2 DEF AcActive, AcNone
<1>4. AcShapes
  BY <1>2 DEF AcShapes, AcUploadRecords
<1>5. AcScopesLive /\ AcScopesOutlive /\ AcPassIsOrdered
  BY <1>2 DEF AcScopesLive, AcScopesOutlive, AcPassIsOrdered, AcNone
<1>6. AcReservationsAreHeld
  BY <1>2, <1>3, FS_EmptySet DEF AcReservationsAreHeld
<1>7. AcTypeOK
  <2>1. DOMAIN acRows \subseteq AcTokens
    BY AcAssumption DEF AcInit
  <2>2. Cardinality(AcUploads) \in Nat
    BY ActiveIsCounted
  <2>3. \A u \in AcUploads : acUploads[u].at = "none"
    BY <1>2 DEF AcNone
  <2>4. acNow \in 1..AcMaxTime /\ acStarts \in 0..AcMaxStarts /\ acAt = "down"
    BY AcAssumption DEF AcInit
  <2>. QED
    BY <1>2, <2>1, <2>2, <2>3, <2>4 DEF AcTypeOK
<1>. QED
  BY <1>1, <1>4, <1>5, <1>6, <1>7 DEF AcIInv, AcStore

LEMMA AccessInduction == AcSpec => []AcIInv
<1>1. AcIInv /\ [AcNext]_acVars => AcIInv'
  BY RowsStay, StoreStays, AccessTypesStay DEF AcIInv
<1>. QED
  BY AccessBegins, <1>1, PTL DEF AcSpec

(* Each static token of the running server's configuration is valid and has its own
   rights, and no other static token is valid: not the one an old version left, not one
   of an earlier configuration, whichever of its tokens changed places since. *)
LEMMA ConfiguredTokens == AcRowsAreOwned => AcTokensAreConfigured
<1>. SUFFICES ASSUME AcRowsAreOwned, acAt = "serving", NEW t \in AcTokens
              PROVE  IF t \in {acConfig.read, acConfig.write}
                     THEN /\ AcValid(t)
                          /\ acRows[t].may = (IF t = acConfig.read THEN AcRead ELSE AcWrite)
                     ELSE ~AcValid(t)
  BY DEF AcTokensAreConfigured
<1>1. acConfig.read # acConfig.write
  BY AcAssumption DEF AcRowsAreOwned
<1>2. CASE t = acConfig.read
  <2>1. t \in DOMAIN acRows /\ acRows[t] = AcRow("read", AcRead, 0, "any")
    BY <1>2 DEF AcRowsAreOwned
  <2>. QED
    BY <1>2, <2>1 DEF AcValid, AcRow
<1>3. CASE t = acConfig.write
  <2>1. t \in DOMAIN acRows /\ acRows[t] = AcRow("write", AcWrite, 0, "any")
    BY <1>3 DEF AcRowsAreOwned
  <2>. QED
    BY <1>1, <1>3, <2>1 DEF AcValid, AcRow
<1>4. CASE t \notin {acConfig.read, acConfig.write}
  BY <1>4 DEF AcRowsAreOwned, AcValid
<1>. QED
  BY <1>2, <1>3, <1>4

(* Whatever the server does, its tables hold rows, scopes and sessions of their kinds
   (main.rs, 0001_sqlite_cache.sql). *)
THEOREM AccessIsTyped == AcSpec => []AcTypeOK
  BY AccessInduction, PTL DEF AcIInv

(* A server that takes requests accepts its configured tokens and no other static one
   (serve, upsert_static_token), and what a workspace has reserved is what the sessions
   in its scopes hold (reserve_upload, expire_upload_sessions, garbage_collect). *)
THEOREM AccessIsSafe == AcSpec => []AcSafety
<1>1. AcIInv => AcSafety
  BY ConfiguredTokens DEF AcIInv, AcStore, AcSafety
<1>. QED
  BY <1>1, AccessInduction, PTL

================================================================================

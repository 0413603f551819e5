------------------------------ MODULE CacheServer ------------------------------
(***************************************************************************)
(* The cache server's publication of bundles                               *)
(* (crates/gomo-cache-server/src/main.rs): concurrent PUT and GET handlers *)
(* and the garbage collector share one SQLite connection and a bucket.     *)
(* Every statement, or transaction, is atomic and durable; every call to   *)
(* the bucket is a step of its own that may fail, take effect and still be *)
(* reported as failed, or be cut short.  A handler is dropped when its     *)
(* client disconnects, at any await, and a crash drops all of them.        *)
(*                                                                         *)
(* An upload is one PUT that got past its checks: its session row, object  *)
(* key and blob row are all named by it, as the code's fresh UUIDs do.  A  *)
(* key is a task hash within a scope.  A bundle takes one unit of quota.   *)
(* One hour (a session) or a retention period may pass between any two     *)
(* steps, so what is overdue is a choice.  Tokens and scope rows are not   *)
(* part of this module.                                                    *)
(***************************************************************************)
EXTENDS FiniteSets, Naturals

CONSTANTS
    Keys,
    Results,        \* result digests
    Uploads,
    Readers,        \* GET handlers
    Quota,          \* total_storage_quota
    NoUpload,
    NoResult

ASSUME ServerAssumption ==
    /\ IsFiniteSet(Uploads)
    /\ Quota \in Nat
    /\ NoUpload \notin Uploads
    /\ NoResult \notin Results

VARIABLES
    request,        \* the key and the result digest each PUT carries
    pc,             \* where each PUT handler is, and what it answered
    session,        \* upload_sessions.state
    blob,           \* blobs.state, "none" without a row
    entry,          \* cache_entries: the blob a key refers to
    reserved,       \* workspaces.reserved_bytes
    stored,         \* the objects in the bucket
    reading,        \* the blob each GET looked up
    gcPhase,        \* where the garbage collector is
    gcObjects,      \* expired_objects it has still to delete
    gcBlobs,        \* blob_ids it has still to visit
    gcBlob          \* the one it is visiting

handlerVars == <<request, pc, session>>
gcVars == <<gcPhase, gcObjects, gcBlobs, gcBlob>>
vars == <<request, pc, session, blob, entry, reserved, stored, reading, gcPhase, gcObjects,
          gcBlobs, gcBlob>>

Answers == {"created", "same", "conflict", "refused", "failed"}
Phases == {"idle", "expired", "orphans", "sweep", "mark", "erase", "forget"}

Key(u) == request[u].key
Referenced(u) == \E k \in Keys : entry[k] = u
Active(u) == session[u] = "uploading"
Available == {u \in Uploads : blob[u] = "available"}

(* lookup_entry joins the entry with its blob while that is available. *)
Visible(k) == entry[k] # NoUpload /\ blob[entry[k]] = "available"
Unservable(k) == entry[k] # NoUpload /\ blob[entry[k]] = "failed"
SameResult(k, u) == request[entry[k]].result = request[u].result

Init ==
    /\ request \in [Uploads -> [key : Keys, result : Results]]
    /\ pc = [u \in Uploads |-> "idle"]
    /\ session = [u \in Uploads |-> "none"]
    /\ blob = [u \in Uploads |-> "none"]
    /\ entry = [k \in Keys |-> NoUpload]
    /\ reserved = 0
    /\ stored = {}
    /\ reading = [r \in Readers |-> NoUpload]
    /\ gcPhase = "idle" /\ gcObjects = {} /\ gcBlobs = {} /\ gcBlob = NoUpload

Goto(u, next) == pc' = [pc EXCEPT ![u] = next]

--------------------------------------------------------------------------------
(* put_cache. *)

(* The first lookup answers a request whose key is already published.  A lookup
   that fails is taken for an absent entry. *)
AnswerPublished(u) ==
    /\ pc[u] \in {"idle", "recheck"}
    /\ Visible(Key(u))
    /\ Goto(u, IF SameResult(Key(u), u) THEN "same" ELSE "conflict")
    /\ UNCHANGED <<request, session, blob, entry, reserved, stored, reading, gcVars>>

AcceptBody(u) ==
    /\ pc[u] = "idle"
    /\ Goto(u, "spooled")
    /\ UNCHANGED <<request, session, blob, entry, reserved, stored, reading, gcVars>>

(* A bad header, body or bundle, a missing capability, a full quota or a failed
   statement. *)
Refuse(u) ==
    /\ pc[u] \in {"idle", "spooled"}
    /\ Goto(u, "refused")
    /\ UNCHANGED <<request, session, blob, entry, reserved, stored, reading, gcVars>>

(* reserve_upload's transaction. *)
FitsQuota_ReservedOnly == reserved + 1 <= Quota
FitsQuota == reserved + 1 + Cardinality(Available) <= Quota

Reserve(u) ==
    /\ pc[u] = "spooled"
    /\ FitsQuota
    /\ reserved' = reserved + 1
    /\ session' = [session EXCEPT ![u] = "uploading"]
    /\ Goto(u, "upload")
    /\ UNCHANGED <<request, blob, entry, stored, reading, gcVars>>

(* upload_object: an error may be reported for an object that was stored. *)
UploadSucceeds(u) ==
    /\ pc[u] = "upload"
    /\ stored' = stored \cup {u}
    /\ Goto(u, "verify")
    /\ UNCHANGED <<request, session, blob, entry, reserved, reading, gcVars>>

UploadFails(u) ==
    /\ pc[u] = "upload"
    /\ stored' \in {stored, stored \cup {u}}
    /\ Goto(u, "release")
    /\ UNCHANGED <<request, session, blob, entry, reserved, reading, gcVars>>

(* head_object. *)
VerifySucceeds(u) ==
    /\ pc[u] = "verify" /\ u \in stored
    /\ Goto(u, "publish")
    /\ UNCHANGED <<request, session, blob, entry, reserved, stored, reading, gcVars>>

VerifyFails(u) ==
    /\ pc[u] = "verify"
    /\ Goto(u, "abandon")
    /\ UNCHANGED <<request, session, blob, entry, reserved, stored, reading, gcVars>>

(* finish_upload_in_transaction: the session must still be active, and its
   reservation is given back whatever its new state. *)
Finish_Unchecked(u, state) ==
    /\ session' = [session EXCEPT ![u] = state]
    /\ reserved' = reserved - 1
Finish(u, state) ==
    /\ Active(u)
    /\ session' = [session EXCEPT ![u] = state]
    /\ reserved' = IF reserved = 0 THEN 0 ELSE reserved - 1

(* The publishing transaction: the blob row, the entry unless the key has one
   (ON CONFLICT DO NOTHING, whatever the state of that entry's blob), and the end
   of the session. *)
KeyIsFree_Replace(k) == TRUE
KeyIsFree(k) == entry[k] = NoUpload

Publish(u) ==
    /\ pc[u] = "publish"
    /\ KeyIsFree(Key(u))
    /\ Finish(u, "complete")
    /\ blob' = [blob EXCEPT ![u] = "available"]
    /\ entry' = [entry EXCEPT ![Key(u)] = u]
    /\ Goto(u, "created")
    /\ UNCHANGED <<request, stored, reading, gcVars>>

LosePublication(u) ==
    /\ pc[u] = "publish"
    /\ ~KeyIsFree(Key(u))
    /\ Finish(u, "failed")
    /\ blob' = [blob EXCEPT ![u] = "deleting"]
    /\ Goto(u, "cleanup")
    /\ UNCHANGED <<request, entry, stored, reading, gcVars>>

(* The session is no longer active, or a statement or the commit fails. *)
PublishFails(u) ==
    /\ pc[u] = "publish"
    /\ Goto(u, "abandon")
    /\ UNCHANGED <<request, session, blob, entry, reserved, stored, reading, gcVars>>

(* release_upload, on its own after a failed upload ("release") or as the first
   half of abandon_upload; its failure is ignored. *)
AfterRelease(u) == Goto(u, IF pc[u] = "release" THEN "failed" ELSE "discard")

ReleaseSucceeds(u) ==
    /\ pc[u] \in {"release", "abandon"}
    /\ Finish(u, "failed")
    /\ AfterRelease(u)
    /\ UNCHANGED <<request, blob, entry, stored, reading, gcVars>>

ReleaseFails(u) ==
    /\ pc[u] \in {"release", "abandon"}
    /\ AfterRelease(u)
    /\ UNCHANGED <<request, session, blob, entry, reserved, stored, reading, gcVars>>

(* abandon_upload deletes the object; a failure is only logged. *)
Discard(u) ==
    /\ pc[u] = "discard"
    /\ stored' \in {stored, stored \ {u}}
    /\ Goto(u, "failed")
    /\ UNCHANGED <<request, session, blob, entry, reserved, reading, gcVars>>

(* cleanup_unpublished_blob deletes the losing object and then its row, which it
   leaves to the garbage collector when the first delete fails. *)
CleanupFails_Continues(u) == Goto(u, "erased")
CleanupFails(u) == Goto(u, "recheck")

CleanupObject(u) ==
    /\ pc[u] = "cleanup"
    /\ \/ stored' = stored \ {u} /\ Goto(u, "erased")
       \/ stored' \in {stored, stored \ {u}} /\ CleanupFails(u)
    /\ UNCHANGED <<request, session, blob, entry, reserved, reading, gcVars>>

CleanupRow(u) ==
    /\ pc[u] = "erased"
    /\ \/ blob' = IF Referenced(u) THEN blob ELSE [blob EXCEPT ![u] = "none"]
       \/ UNCHANGED blob
    /\ Goto(u, "recheck")
    /\ UNCHANGED <<request, session, entry, reserved, stored, reading, gcVars>>

(* "publication race produced no winner", or the last lookup failed. *)
NoWinner(u) ==
    /\ pc[u] = "recheck"
    /\ Goto(u, "failed")
    /\ UNCHANGED <<request, session, blob, entry, reserved, stored, reading, gcVars>>

--------------------------------------------------------------------------------
(* A disconnected client drops its handler; a crash drops them all, with the
   garbage collector.  A PutObject that was under way may have been carried out. *)
InHandler(u) == pc[u] \notin Answers \cup {"idle", "gone"}
MayBeStored(gone) == {u \in gone : pc[u] = "upload"}

Disconnect(u) ==
    /\ InHandler(u)
    /\ stored' \in {stored, stored \cup MayBeStored({u})}
    /\ Goto(u, "gone")
    /\ UNCHANGED <<request, session, blob, entry, reserved, reading, gcVars>>

GcIdle ==
    gcPhase' = "idle" /\ gcObjects' = {} /\ gcBlobs' = {} /\ gcBlob' = NoUpload

Crash ==
    LET gone == {u \in Uploads : InHandler(u)} IN
    /\ \E landed \in SUBSET MayBeStored(gone) : stored' = stored \cup landed
    /\ pc' = [u \in Uploads |-> IF u \in gone THEN "gone" ELSE pc[u]]
    /\ reading' = [r \in Readers |-> NoUpload]
    /\ GcIdle
    /\ UNCHANGED <<request, session, blob, entry, reserved>>

--------------------------------------------------------------------------------
(* get_cache.  Any error from the bucket marks the blob failed, if it still has a
   row and the update goes through. *)
Lookup(r) ==
    /\ reading[r] = NoUpload
    /\ \E k \in Keys : Visible(k) /\ reading' = [reading EXCEPT ![r] = entry[k]]
    /\ UNCHANGED <<handlerVars, blob, entry, reserved, stored, gcVars>>

FetchSucceeds(r) ==
    /\ reading[r] \in stored
    /\ reading' = [reading EXCEPT ![r] = NoUpload]
    /\ UNCHANGED <<handlerVars, blob, entry, reserved, stored, gcVars>>

FetchFails(r) ==
    /\ reading[r] # NoUpload
    /\ reading' = [reading EXCEPT ![r] = NoUpload]
    /\ \/ blob' = IF blob[reading[r]] = "none" THEN blob
                  ELSE [blob EXCEPT ![reading[r]] = "failed"]
       \/ UNCHANGED blob
    /\ UNCHANGED <<handlerVars, entry, reserved, stored, gcVars>>

--------------------------------------------------------------------------------
(* garbage_collect, which run_periodic_gc repeats for as long as the server runs. *)

(* expire_upload_sessions, one transaction: which sessions are overdue, and which
   of them fit the batch, is a choice. *)
GcExpire_NotCommitted(overdue) ==
    /\ gcPhase = "idle"
    /\ overdue \subseteq {u \in Uploads : Active(u)}
    /\ gcObjects' = overdue
    /\ gcPhase' = "expired"
    /\ UNCHANGED <<handlerVars, blob, entry, reserved, stored, reading, gcBlobs, gcBlob>>

GcExpire(overdue) ==
    /\ gcPhase = "idle"
    /\ overdue \subseteq {u \in Uploads : Active(u)}
    /\ session' = [u \in Uploads |-> IF u \in overdue THEN "expired" ELSE session[u]]
    /\ reserved' = IF reserved < Cardinality(overdue) THEN 0
                   ELSE reserved - Cardinality(overdue)
    /\ gcObjects' = overdue
    /\ gcPhase' = "expired"
    /\ UNCHANGED <<request, pc, blob, entry, stored, reading, gcBlobs, gcBlob>>

(* A failed delete is logged and not tried again. *)
GcDeleteExpiredObject(u) ==
    /\ gcPhase = "expired" /\ u \in gcObjects
    /\ stored' \in {stored, stored \ {u}}
    /\ gcObjects' = gcObjects \ {u}
    /\ UNCHANGED <<handlerVars, blob, entry, reserved, reading, gcPhase, gcBlobs, gcBlob>>

(* DELETE FROM cache_entries ... RETURNING blob_id. *)
Evictable_Available(k) == Visible(k)
Evictable(k) == entry[k] # NoUpload

GcEvict(past) ==
    /\ gcPhase = "expired" /\ gcObjects = {}
    /\ \A k \in past : Evictable(k)
    /\ entry' = [k \in Keys |-> IF k \in past THEN NoUpload ELSE entry[k]]
    /\ gcBlobs' = {entry[k] : k \in past}
    /\ gcPhase' = "orphans"
    /\ UNCHANGED <<handlerVars, blob, reserved, stored, reading, gcObjects, gcBlob>>

(* The blobs no entry refers to, in whatever state an earlier failure left them. *)
Orphans_Available == {u \in Uploads : blob[u] = "available" /\ ~Referenced(u)}
Orphans == {u \in Uploads : blob[u] # "none" /\ ~Referenced(u)}

GcCollectOrphans(old) ==
    /\ gcPhase = "orphans"
    /\ old \subseteq Orphans
    /\ gcBlobs' = gcBlobs \cup old
    /\ gcPhase' = "sweep"
    /\ UNCHANGED <<handlerVars, blob, entry, reserved, stored, reading, gcObjects, gcBlob>>

(* One blob: look again, mark it, delete its object, forget its row. *)
GcRecheck(u) ==
    /\ gcPhase = "sweep" /\ u \in gcBlobs
    /\ gcBlobs' = gcBlobs \ {u}
    /\ IF u \in Orphans
       THEN gcPhase' = "mark" /\ gcBlob' = u
       ELSE UNCHANGED <<gcPhase, gcBlob>>
    /\ UNCHANGED <<handlerVars, blob, entry, reserved, stored, reading, gcObjects>>

GcMark(u) ==
    /\ gcPhase = "mark" /\ u = gcBlob
    /\ blob' = IF blob[u] = "none" THEN blob ELSE [blob EXCEPT ![u] = "deleting"]
    /\ gcPhase' = "erase"
    /\ UNCHANGED <<handlerVars, entry, reserved, stored, reading, gcObjects, gcBlobs, gcBlob>>

GcErase(u) ==
    /\ gcPhase = "erase" /\ u = gcBlob
    /\ stored' = stored \ {u}
    /\ gcPhase' = "forget"
    /\ UNCHANGED <<handlerVars, blob, entry, reserved, reading, gcObjects, gcBlobs, gcBlob>>

GcEraseFails(u) ==
    /\ gcPhase = "erase" /\ u = gcBlob
    /\ stored' \in {stored, stored \ {u}}
    /\ gcPhase' = "sweep" /\ gcBlob' = NoUpload
    /\ UNCHANGED <<handlerVars, blob, entry, reserved, reading, gcObjects, gcBlobs>>

GcForget(u) ==
    /\ gcPhase = "forget" /\ u = gcBlob
    /\ blob' = [blob EXCEPT ![u] = "none"]
    /\ gcPhase' = "sweep" /\ gcBlob' = NoUpload
    /\ UNCHANGED <<handlerVars, entry, reserved, stored, reading, gcObjects, gcBlobs>>

GcEnds ==
    /\ gcPhase = "sweep" /\ gcBlobs = {}
    /\ GcIdle
    /\ UNCHANGED <<handlerVars, blob, entry, reserved, stored, reading>>

(* A statement fails: the rest of the round is given up.  (After the last blob this
   is the same step as ending the round.) *)
GcFails ==
    /\ gcPhase # "idle"
    /\ GcIdle
    /\ UNCHANGED <<handlerVars, blob, entry, reserved, stored, reading>>

--------------------------------------------------------------------------------
Put(u) ==
    \/ AnswerPublished(u) \/ AcceptBody(u) \/ Refuse(u) \/ Reserve(u)
    \/ UploadSucceeds(u) \/ UploadFails(u)
    \/ VerifySucceeds(u) \/ VerifyFails(u)
    \/ Publish(u) \/ LosePublication(u) \/ PublishFails(u)
    \/ ReleaseSucceeds(u) \/ ReleaseFails(u) \/ Discard(u)
    \/ CleanupObject(u) \/ CleanupRow(u) \/ NoWinner(u)
    \/ Disconnect(u)

Get(r) == Lookup(r) \/ FetchSucceeds(r) \/ FetchFails(r)

GarbageCollect ==
    \/ \E overdue \in SUBSET Uploads : GcExpire(overdue)
    \/ \E past \in SUBSET Keys : GcEvict(past)
    \/ \E old \in SUBSET Uploads : GcCollectOrphans(old)
    \/ \E u \in Uploads :
          \/ GcDeleteExpiredObject(u) \/ GcRecheck(u) \/ GcMark(u)
          \/ GcErase(u) \/ GcEraseFails(u) \/ GcForget(u)
    \/ GcEnds \/ GcFails

Next ==
    \/ \E u \in Uploads : Put(u)
    \/ \E r \in Readers : Get(r)
    \/ GarbageCollect
    \/ Crash

Spec == Init /\ [][Next]_vars

(* The collector runs every hour and goes on until a statement fails, and crashes
   and failed statements stop some day.  Time passes, so every session and every
   orphan is overdue in some round, and so is an entry nobody can read; the bucket
   does not refuse the same deletion for ever. *)
GcFairness ==
    /\ <>[][GcFails \/ Crash => GcEnds]_vars
    /\ WF_vars(GarbageCollect)
    /\ SF_vars(GcExpire({u \in Uploads : Active(u)}))
    /\ SF_vars(\E past \in SUBSET Keys : {k \in Keys : Unservable(k)} \subseteq past /\ GcEvict(past))
    /\ SF_vars(GcCollectOrphans(Orphans))
    /\ \A u \in Uploads : SF_vars(GcErase(u))

FairSpec == Spec /\ GcFairness

--------------------------------------------------------------------------------
TypeOK ==
    /\ request \in [Uploads -> [key : Keys, result : Results]]
    /\ pc \in [Uploads -> Answers \cup {"idle", "spooled", "upload", "verify", "publish",
                   "release", "abandon", "discard", "cleanup", "erased", "recheck", "gone"}]
    /\ session \in [Uploads -> {"none", "uploading", "complete", "failed", "expired"}]
    /\ blob \in [Uploads -> {"none", "available", "deleting", "failed"}]
    /\ entry \in [Keys -> Uploads \cup {NoUpload}]
    /\ reserved \in Nat
    /\ stored \subseteq Uploads
    /\ reading \in [Readers -> Uploads \cup {NoUpload}]
    /\ gcPhase \in Phases
    /\ gcObjects \subseteq Uploads /\ gcBlobs \subseteq Uploads
    /\ gcBlob \in Uploads \cup {NoUpload}

(* What a lookup can find can be read: the bundle of a visible entry is in the
   bucket, although uploads and deletions run outside every transaction. *)
VisibleEntriesAreStored == \A k \in Keys : Visible(k) => entry[k] \in stored

(* The quota held by uploads is exactly that of the active sessions: no path
   through a lost race, an expiry or a retry returns a reservation twice. *)
ReservationsAreExact == reserved = Cardinality({u \in Uploads : Active(u)})

(* Reserved and published bundles never exceed the quota. *)
WithinQuota == reserved + Cardinality(Available) <= Quota

(* A blob row is given up only after its object: until then a failed deletion is
   found again. *)
RowOutlivesObject ==
    [][\A u \in Uploads : blob[u] # "none" /\ blob'[u] = "none" => u \notin stored']_vars

(* A reservation never outlives its upload for good, whoever dies. *)
ReservationsEnd == \A u \in Uploads : Active(u) ~> ~Active(u)

(* Rows nothing refers to are deleted in the end, with their objects. *)
OrphansEnd == \A u \in Uploads : u \in Orphans ~> blob[u] = "none" /\ u \notin stored

(* A key whose blob was marked failed shows nothing and accepts nothing; retention
   frees it in the end. *)
FailedKeysAreFreed ==
    \A k \in Keys : Unservable(k) ~> ~Unservable(k)

(* main.rs:58, "Evict expired entries and unreferenced objects": an object that
   nothing refers to any more is deleted in the end. *)
Unreferenced(u) == u \in stored /\ ~Referenced(u) /\ ~InHandler(u)
UnreferencedObjectsAreEvicted == \A u \in Uploads : Unreferenced(u) ~> u \notin stored

(* The inductive invariant.  An entry names the upload that published it, whose
   session is complete, so no deletion that follows from an expired session, an
   abandoned upload or a lost race can concern it; the collector only holds blobs
   that nothing refers to and nothing will; and an upload about to publish under an
   active session still has its object. *)
Unpublished == {"idle", "spooled", "upload", "verify", "publish"}

EntriesNameTheirPublisher ==
    \A k \in Keys : entry[k] # NoUpload =>
        /\ Key(entry[k]) = k
        /\ pc[entry[k]] = "created"
        /\ session[entry[k]] = "complete"
        /\ blob[entry[k]] # "none"

BlobsArePublished == \A u \in Uploads : blob[u] # "none" => pc[u] \notin Unpublished

SessionsFollowHandlers ==
    /\ \A u \in Uploads : pc[u] \in {"idle", "spooled"} => session[u] = "none"
    /\ \A u \in Uploads : pc[u] = "publish" /\ Active(u) => u \in stored

ErasedObjectsStayErased ==
    /\ \A u \in Uploads : pc[u] = "erased" => u \notin stored
    /\ gcPhase = "forget" => gcBlob \notin stored

CollectorHoldsGarbage ==
    /\ \A u \in gcObjects : session[u] = "expired"
    /\ \A u \in gcBlobs \cup {gcBlob} :
          u # NoUpload => pc[u] \notin Unpublished /\ ~Referenced(u)

IInv ==
    /\ TypeOK
    /\ EntriesNameTheirPublisher
    /\ BlobsArePublished
    /\ SessionsFollowHandlers
    /\ CollectorHoldsGarbage
    /\ ErasedObjectsStayErased
    /\ VisibleEntriesAreStored
    /\ ReservationsAreExact
    /\ WithinQuota

(* The store a client sees: what lookups find, what of it can be read, and what
   each PUT was answered. *)
Shown == [k \in Keys |-> IF Visible(k) THEN request[entry[k]].result ELSE NoResult]
Readable == {k \in Keys : Visible(k) /\ entry[k] \in stored}
Told == [u \in Uploads |->
            IF pc[u] \in {"created", "same", "conflict"} THEN pc[u] ELSE "nothing"]

Store == INSTANCE PublicationStore WITH
    wanted <- request, value <- Shown, readable <- Readable, told <- Told

(* The server implements the first-writer-wins store: the first publication of a
   key is the one it shows, later ones are answered by it, and what it shows can
   be read. *)
ImplementsStore == Store!Spec
================================================================================

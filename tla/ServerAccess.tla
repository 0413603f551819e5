------------------------------ MODULE ServerAccess ------------------------------
(***************************************************************************)
(* Who may use the cache server and in which scope (the second half of     *)
(* gomo-cache-server/src/main.rs, and the tables of 0001_sqlite_cache.sql  *)
(* with their foreign keys): the static tokens that every start of the     *)
(* server puts in the database, the short-lived tokens that workflows get  *)
(* for an identity token, the decision taken for each request, and the     *)
(* scopes that uploads create and garbage collection deletes.              *)
(*                                                                         *)
(* Objects, digests and quotas are the business of CacheServer; here an    *)
(* upload is a session that reserves one unit in a scope and may become an *)
(* entry.  Time is a clock of coarse ticks.                                *)
(***************************************************************************)
EXTENDS Naturals, FiniteSets

CONSTANTS
    AcTokens,       \* static tokens
    AcConfigs,      \* configurations: [read, write], see Config::load
    AcLegacy,       \* the token an old version left in the database, or none
    AcRules,        \* trust rules: [workflow, refs, environments, capabilities]
    AcClaims,       \* identity tokens: [id, workflow, ref, environment, run]
    AcUploads,      \* uploads
    AcSessionLife,  \* ticks an upload session lives
    AcScopeLife,    \* ticks a run scope lives after its last use
    AcBatch,        \* gc_batch_size
    AcMaxTime,      \* bound: the last tick
    AcMaxStarts     \* bound: how many times the server is started

AcKinds == {"shared", "run", "private"}

ASSUME AcAssumption ==
    /\ AcSessionLife \in Nat /\ AcScopeLife \in Nat /\ AcSessionLife < AcScopeLife
    /\ AcMaxTime \in Nat \ {0} /\ AcMaxStarts \in Nat
    /\ AcLegacy \subseteq AcTokens
    /\ \A c \in AcConfigs : {c.read, c.write} \subseteq AcTokens /\ c.read # c.write
    /\ \A rule \in AcRules : rule.capabilities \subseteq AcKinds \X BOOLEAN
    (* an exchanged token is drawn at random, so it is none of the static ones *)
    /\ \A c \in AcClaims : c.id \notin AcTokens
    (* a pass of garbage collection can expire all the sessions there are *)
    /\ IsFiniteSet(AcUploads) /\ AcBatch \in Nat /\ Cardinality(AcUploads) <= AcBatch

VARIABLES
    acAt,           \* "down", the step of the start, or "serving"
    acConfig,       \* the configuration of the running server
    acRows,         \* access_tokens: [token -> its row]
    acScopes,       \* cache_scopes: [scope -> when it expires], 0 for never
    acEvents,       \* the scopes that cache_events refer to
    acUploads,      \* upload_sessions, by upload
    acEntries,      \* cache_entries: [scope, last access]
    acReserved,     \* workspaces.reserved_bytes
    acGc,           \* the pass of garbage collection: where it is
    acNow,          \* the time
    acStarts        \* how many times the server has been started

acVars == <<acAt, acConfig, acRows, acScopes, acEvents, acUploads, acEntries, acReserved,
            acGc, acNow, acStarts>>

AcShared == [kind |-> "shared", key |-> "shared"]
AcNone == [at |-> "none"]

(* Capabilities: <<kind, write>>. *)
AcRead == {<<"shared", FALSE>>}
AcWrite == {<<"shared", FALSE>>, <<"shared", TRUE>>}

AcRow(principal, may, expires, run) ==
    [principal |-> principal, may |-> may, expires |-> expires, run |-> run, revoked |-> FALSE]
AcPut(f, k, v) == [x \in DOMAIN f \cup {k} |-> IF x = k THEN v ELSE f[x]]
AcKeep(f, S) == [x \in DOMAIN f \cap S |-> f[x]]

--------------------------------------------------------------------------------
AcInit ==
    /\ acAt = "down" /\ acConfig \in {<<>>} /\ acStarts = 0 /\ acNow = 1
    /\ acRows = [t \in AcLegacy |-> AcRow("legacy", AcWrite, 0, "any")]
    /\ acScopes = [s \in {} |-> 0] /\ acEvents = {}
    /\ acUploads = [u \in AcUploads |-> AcNone] /\ acEntries = {} /\ acReserved = 0
    /\ acGc = "idle"

AcSameData == UNCHANGED <<acScopes, acEvents, acUploads, acEntries, acReserved>>

(* serve: the legacy token is disabled, then each static token is put in
   place, each in a transaction, before the first request is taken. *)
AcStart ==
    /\ acAt = "down" /\ acStarts < AcMaxStarts
    /\ acConfig' \in AcConfigs /\ acAt' = "legacy" /\ acStarts' = acStarts + 1
    /\ UNCHANGED <<acRows, acGc, acNow>> /\ AcSameData

AcDisableLegacy ==
    /\ acAt = "legacy" /\ acAt' = "read"
    /\ acRows' = [t \in DOMAIN acRows |->
                    IF acRows[t].principal = "legacy"
                    THEN [acRows[t] EXCEPT !.revoked = TRUE] ELSE acRows[t]]
    /\ UNCHANGED <<acConfig, acGc, acNow, acStarts>> /\ AcSameData

(* upsert_static_token: the principal's other tokens are deleted; the hash of
   a token is unique, so a token that was another principal's changes hands. *)
AcUpserted(token, principal, may) ==
    AcPut(AcKeep(acRows, {t \in DOMAIN acRows : acRows[t].principal # principal}),
          token, AcRow(principal, may, 0, "any"))

AcUpsertRead ==
    /\ acAt = "read" /\ acAt' = "write"
    /\ acRows' = AcUpserted(acConfig.read, "read", AcRead)
    /\ UNCHANGED <<acConfig, acGc, acNow, acStarts>> /\ AcSameData
AcUpsertWrite ==
    /\ acAt = "write" /\ acAt' = "serving"
    /\ acRows' = AcUpserted(acConfig.write, "write", AcWrite)
    /\ UNCHANGED <<acConfig, acGc, acNow, acStarts>> /\ AcSameData

(* The process ends, wherever it is. *)
AcStop ==
    /\ acAt # "down" /\ acStarts < AcMaxStarts
    /\ acAt' = "down" /\ acGc' = "idle"
    /\ acUploads' = [u \in AcUploads |->
                        IF acUploads[u].at = "scope" THEN AcNone ELSE acUploads[u]]
    /\ UNCHANGED <<acConfig, acRows, acNow, acStarts, acScopes, acEvents, acEntries, acReserved>>

(* A tick is longer than a request's statements and than a pass. *)
AcTick ==
    /\ acStarts > 0 /\ acNow < AcMaxTime /\ acNow' = acNow + 1
    /\ acGc = "idle" /\ \A u \in AcUploads : acUploads[u].at # "scope"
    /\ UNCHANGED <<acAt, acConfig, acRows, acGc, acStarts>> /\ AcSameData

--------------------------------------------------------------------------------
(* Requests.                                                               *)
AcSame == UNCHANGED <<acAt, acConfig, acNow, acStarts, acGc>>

(* exchange_github_oidc: the first rule whose workflow matches; a rule may
   give the right to write the shared scope, which only a trusted branch or
   environment gets.  The token is bound to its run. *)
AcTrusted(rule, claim) == claim.ref \in rule.refs \/ claim.environment \in rule.environments
AcGranted(rule, claim) ==
    {c \in rule.capabilities : AcTrusted(rule, claim) \/ c # <<"shared", TRUE>>}

AcExchange(claim) ==
    /\ acAt = "serving" /\ claim.id \notin DOMAIN acRows
    /\ \E rule \in AcRules :
         /\ rule.workflow \in {"any", claim.workflow}
         /\ acRows' = AcPut(acRows, claim.id, AcRow("ci", AcGranted(rule, claim), acNow + 1, claim.run))
    /\ AcSame /\ AcSameData

(* authorize: who holds the token, and whether it may use the scope. *)
AcValid(t) ==
    /\ t \in DOMAIN acRows /\ ~acRows[t].revoked
    /\ acRows[t].expires = 0 \/ acRows[t].expires > acNow
AcMay(t, scope, write) ==
    /\ acAt = "serving" /\ AcValid(t)
    /\ scope.kind = "private" => scope.key = acRows[t].principal
    /\ scope.kind = "run" => acRows[t].run \in {"any", scope.key}
    /\ <<scope.kind, write>> \in acRows[t].may

(* ensure_scope: created, or its life prolonged; in a statement of its own. *)
AcEnsured(scope) ==
    AcPut(acScopes, scope, IF scope.kind = "run" THEN acNow + AcScopeLife ELSE 0)

AcScopesOf(t) ==
    {AcShared, [kind |-> "run", key |-> acRows[t].run],
     [kind |-> "private", key |-> acRows[t].principal]}

AcPutBegins(u, t) ==
    /\ acUploads[u] = AcNone
    /\ t \in DOMAIN acRows
    /\ \E scope \in AcScopesOf(t) :
         /\ AcMay(t, scope, TRUE)
         /\ acScopes' = AcEnsured(scope)
         /\ acUploads' = [acUploads EXCEPT ![u] = [at |-> "scope", scope |-> scope, until |-> 0]]
    /\ AcSame /\ UNCHANGED <<acRows, acEvents, acEntries, acReserved>>

(* reserve_upload; the foreign key refuses a scope that is gone. *)
AcReserve(u) ==
    /\ acUploads[u].at = "scope"
    /\ IF acUploads[u].scope \in DOMAIN acScopes
       THEN /\ acUploads' = [acUploads EXCEPT ![u] =
                  [at |-> "active", scope |-> acUploads[u].scope, until |-> acNow + AcSessionLife]]
            /\ acReserved' = acReserved + 1
       ELSE acUploads' = [acUploads EXCEPT ![u] = AcNone] /\ UNCHANGED acReserved
    /\ AcSame /\ UNCHANGED <<acRows, acScopes, acEvents, acEntries>>

(* The upload is published, or given up; either gives its reservation back. *)
AcPublish(u) ==
    /\ acUploads[u].at = "active"
    /\ acUploads' = [acUploads EXCEPT ![u].at = "done"]
    /\ acReserved' = acReserved - 1
    /\ \/ acEntries' = {e \in acEntries : e.scope # acUploads[u].scope}
                          \cup {[scope |-> acUploads[u].scope, last |-> acNow]}
       \/ UNCHANGED acEntries
    /\ AcSame /\ UNCHANGED <<acRows, acScopes, acEvents>>

(* report_corruption: the event refers to the scope, without ON DELETE. *)
AcReport(t) ==
    /\ t \in DOMAIN acRows
    /\ \E scope \in AcScopesOf(t) :
         /\ AcMay(t, scope, FALSE)
         /\ acScopes' = AcEnsured(scope)
         /\ acEvents' = acEvents \cup {scope}
    /\ AcSame /\ UNCHANGED <<acRows, acUploads, acEntries, acReserved>>

--------------------------------------------------------------------------------
(* garbage_collect, statement by statement.                                *)
AcGcSame == UNCHANGED <<acAt, acConfig, acNow, acStarts, acEvents>>

AcGcTokens ==
    /\ acAt = "serving" /\ acGc = "idle" /\ acGc' = "sessions"
    /\ acRows' = AcKeep(acRows, {t \in DOMAIN acRows :
                    acRows[t].expires = 0 \/ acRows[t].expires > acNow})
    /\ AcGcSame /\ UNCHANGED <<acScopes, acUploads, acEntries, acReserved>>

AcOverdue == {u \in AcUploads : acUploads[u].at = "active" /\ acUploads[u].until <= acNow}
AcExpired_Later == {}                       \* mutant: sessions are left to another pass
AcExpired_Again ==                          \* mutant: whatever the status of the session
    {u \in AcUploads : acUploads[u].at \in {"active", "done"} /\ acUploads[u].until <= acNow}
AcExpired == AcOverdue
AcGcSessions ==
    /\ acGc = "sessions" /\ acGc' = "entries"
    /\ acUploads' = [u \in AcUploads |->
                        IF u \in AcExpired THEN [acUploads[u] EXCEPT !.at = "done"] ELSE acUploads[u]]
    /\ acReserved' = acReserved - Cardinality(AcExpired)
    /\ AcGcSame /\ UNCHANGED <<acRows, acScopes, acEntries>>

AcGcEntries ==
    /\ acGc = "entries" /\ acGc' = "scopes"
    /\ acEntries' = {e \in acEntries : e.last + AcScopeLife >= acNow}
    /\ AcGcSame /\ UNCHANGED <<acRows, acScopes, acUploads, acReserved>>

(* The expired scopes without entries go in one statement, and what refers
   to them with ON DELETE CASCADE with them; an event stops the statement. *)
AcDoomed ==
    {s \in DOMAIN acScopes : /\ acScopes[s] # 0 /\ acScopes[s] <= acNow
                             /\ \A e \in acEntries : e.scope # s}
AcGcScopes ==
    /\ acGc = "scopes" /\ acGc' = "idle"
    /\ IF AcDoomed \cap acEvents # {}
       THEN UNCHANGED <<acScopes, acUploads>>
       ELSE /\ acScopes' = AcKeep(acScopes, DOMAIN acScopes \ AcDoomed)
            /\ acUploads' = [u \in AcUploads |->
                  IF acUploads[u].at = "active" /\ acUploads[u].scope \in AcDoomed
                  THEN [acUploads[u] EXCEPT !.at = "done"] ELSE acUploads[u]]
    /\ AcGcSame /\ UNCHANGED <<acRows, acEntries, acReserved>>

AcNext ==
    \/ AcStart
    \/ AcDisableLegacy
    \/ AcUpsertRead
    \/ AcUpsertWrite
    \/ AcStop
    \/ AcTick
    \/ \E c \in AcClaims : AcExchange(c)
    \/ \E u \in AcUploads, t \in DOMAIN acRows : AcPutBegins(u, t)
    \/ \E u \in AcUploads : AcReserve(u)
    \/ \E u \in AcUploads : AcPublish(u)
    \/ \E t \in DOMAIN acRows : AcReport(t)
    \/ AcGcTokens
    \/ AcGcSessions
    \/ AcGcEntries
    \/ AcGcScopes

AcSpec == AcInit /\ [][AcNext]_acVars

--------------------------------------------------------------------------------
(* Types.                                                                  *)
AcTypeOK ==
    /\ acAt \in {"down", "legacy", "read", "write", "serving"}
    /\ DOMAIN acRows \subseteq AcTokens \cup {c.id : c \in AcClaims}
    /\ \A s \in DOMAIN acScopes : s.kind \in AcKinds /\ acScopes[s] \in 0..(AcMaxTime + AcScopeLife)
    /\ \A u \in AcUploads : acUploads[u].at \in {"none", "scope", "active", "done"}
    /\ acReserved \in 0..Cardinality(AcUploads)
    /\ acGc \in {"idle", "sessions", "entries", "scopes"}
    /\ acNow \in 1..AcMaxTime /\ acStarts \in 0..AcMaxStarts

(* A server that takes requests accepts the two tokens of its configuration,
   each with its rights, and no other static token: whatever configurations
   came before, in whatever order their tokens changed places, and wherever
   an earlier start was cut short. *)
AcTokensAreConfigured ==
    acAt = "serving" =>
        \A t \in AcTokens :
            IF t \in {acConfig.read, acConfig.write}
            THEN AcValid(t) /\ acRows[t].may = (IF t = acConfig.read THEN AcRead ELSE AcWrite)
            ELSE ~AcValid(t)

(* What is reserved is what the active sessions reserved: no deletion of a
   scope, which takes its sessions with it, takes one that still holds a
   reservation; and entries and sessions are always in a scope that exists. *)
AcActive == {u \in AcUploads : acUploads[u].at = "active"}
AcReservationsAreHeld ==
    /\ acReserved = Cardinality(AcActive)
    /\ \A e \in acEntries : e.scope \in DOMAIN acScopes
    /\ \A u \in AcActive : acUploads[u].scope \in DOMAIN acScopes

AcSafety == AcTokensAreConfigured /\ AcReservationsAreHeld
================================================================================

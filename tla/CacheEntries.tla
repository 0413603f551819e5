------------------------------ MODULE CacheEntries ------------------------------
(***************************************************************************)
(* The entries of named tasks and the room all entries may take.  They     *)
(* share no state.                                                         *)
(***************************************************************************)
EXTENDS NamedEntries, CachePrune

(* The caches keep whole entries only, and give and take no more than they must
   (commands/task.rs, cache.rs). *)
EntriesSafety == NeSafety /\ PrSafety
================================================================================

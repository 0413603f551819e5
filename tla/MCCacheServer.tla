----------------------------- MODULE MCCacheServer -----------------------------
(***************************************************************************)
(* The cache server for TLC: uploads that compete for one key and for a    *)
(* quota that does not hold them all, and a reader.                        *)
(***************************************************************************)
EXTENDS CacheServer, TLC

Symmetry == Permutations(Uploads) \cup Permutations(Results)
================================================================================

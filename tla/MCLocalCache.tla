----------------------------- MODULE MCLocalCache -----------------------------
(***************************************************************************)
(* The local cache for TLC: a few processes around one entry.              *)
(***************************************************************************)
EXTENDS LocalCache, TLC

Symmetry == Permutations(Storers) \cup Permutations(Importers) \cup Permutations(Restorers)
================================================================================

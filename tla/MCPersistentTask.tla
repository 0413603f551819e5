--------------------------- MODULE MCPersistentTask ---------------------------
(***************************************************************************)
(* The persistent session for TLC: a few steps, in either mode.            *)
(***************************************************************************)
EXTENDS PersistentTask
================================================================================

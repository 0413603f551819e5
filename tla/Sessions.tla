-------------------------------- MODULE Sessions --------------------------------
(***************************************************************************)
(* The two kinds of session that follow the user's edits.  They share no   *)
(* state.                                                                  *)
(***************************************************************************)
EXTENDS WatchSession, DevSession

(* A session misses no edit it was told of, and ends when it must (commands/watch.rs,
   commands/dev.rs). *)
SessionsSafety == WtSafety /\ DvSafety
================================================================================

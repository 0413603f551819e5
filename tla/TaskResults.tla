------------------------------- MODULE TaskResults -------------------------------
(***************************************************************************)
(* What becomes of a task's result: its output folders when they are       *)
(* restored, and the bundle that carries it to another machine.  They      *)
(* share no state.                                                         *)
(***************************************************************************)
EXTENDS OutputRestore, ResultBundle

(* A restore leaves one build and loses none, and what is published can be installed
   (cache.rs, and main.rs of gomo-cache-server). *)
ResultsSafety == RestSafety /\ BunPublishedIsUsable
================================================================================

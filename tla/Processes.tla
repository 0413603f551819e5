-------------------------------- MODULE Processes --------------------------------
(***************************************************************************)
(* The processes of the commands that a run starts, and the screen that    *)
(* shows what they write.  They share no state.                            *)
(***************************************************************************)
EXTENDS ChildProcess, RunTerminal

(* A command's output arrives whole and its processes end, and the terminal shows
   what the run has said (runner.rs, cancellation.rs, ui/run.rs). *)
ProcessSafety == CpSafety /\ RtSafety
================================================================================

------------------------------ MODULE ChildProcess ------------------------------
(***************************************************************************)
(* The external command a task runs (src/runner.rs, src/cancellation.rs,   *)
(* run_piped_persistent of src/ui/surface.rs).  The command leads a process *)
(* group of its own and may leave children behind that hold its pipes; it  *)
(* is waited for in one of three ways:                                     *)
(*   "captured"   GleamCommandRunner: until both pipes are at their end    *)
(*                and the command has ended, whichever comes last;         *)
(*   "piped"      a persistent step: until the command has ended, threads  *)
(*                of their own pump the pipes;                             *)
(*   "inherited"  wait_for_child: until the command has ended, and then    *)
(*                what is left of a cancelled group is killed.             *)
(* A cancelled group gets SIGTERM at the first poll that sees it and       *)
(* SIGKILL at every poll after the grace period.                           *)
(***************************************************************************)
EXTENDS Naturals, FiniteSets

CONSTANTS
    CpProcs,        \* processes that may belong to the command
    CpLeader,       \* the command itself
    CpGrace,        \* polls in the 250 ms between the two signals
    CpMaxChunks     \* bound: how many chunks of output there are

ASSUME CpAssumption == CpLeader \in CpProcs /\ CpGrace \in Nat /\ CpMaxChunks \in Nat

VARIABLES
    cpAt,           \* "idle", "waiting" or "returned"
    cpMode,         \* how the command is waited for
    cpProc,         \* the processes: [life, stubborn, pipe, apart, term, kill]
    cpCancelled,    \* the cancellation token
    cpSince,        \* polls since SIGTERM was sent: 0 before it
    cpExit,         \* what try_wait has seen of the command: "none" or its end
    cpWritten,      \* chunks written to the pipes
    cpGot,          \* chunks the waiting loop has received
    cpReadersDone,  \* both readers are at the end of their pipe
    cpResult        \* what is returned: "none", "ok" or "failed"

cpVars == <<cpAt, cpMode, cpProc, cpCancelled, cpSince, cpExit, cpWritten, cpGot,
            cpReadersDone, cpResult>>

CpModes == {"captured", "piped", "inherited"}
CpProcess(life, stubborn, pipe, apart) ==
    [life |-> life, stubborn |-> stubborn, pipe |-> pipe, apart |-> apart,
     term |-> FALSE, kill |-> FALSE]
CpNobody == CpProcess("none", FALSE, FALSE, FALSE)
CpAlive(p) == cpProc[p].life = "alive"
CpGroup == {p \in CpProcs : CpAlive(p) /\ ~cpProc[p].apart}
CpHolders == {p \in CpProcs : CpAlive(p) /\ cpProc[p].pipe}

--------------------------------------------------------------------------------
CpInit ==
    /\ cpAt = "idle" /\ cpMode = "captured"
    /\ cpProc = [p \in CpProcs |-> CpNobody]
    /\ cpCancelled = FALSE /\ cpSince = 0 /\ cpExit = "none"
    /\ cpWritten = 0 /\ cpGot = 0 /\ cpReadersDone = FALSE /\ cpResult = "none"

(* configure_process_group and spawn; a command that cannot be started is
   answered at once. *)
CpSpawn ==
    /\ cpAt = "idle"
    /\ cpMode' \in CpModes
    /\ \/ /\ \E stubborn \in BOOLEAN :
               cpProc' = [cpProc EXCEPT ![CpLeader] =
                            CpProcess("alive", stubborn, cpMode' # "inherited", FALSE)]
          /\ cpAt' = "waiting" /\ UNCHANGED cpResult
       \/ cpAt' = "returned" /\ cpResult' = "failed" /\ UNCHANGED cpProc
    /\ UNCHANGED <<cpCancelled, cpSince, cpExit, cpWritten, cpGot, cpReadersDone>>

CpSameWait ==
    UNCHANGED <<cpAt, cpMode, cpCancelled, cpSince, cpExit, cpGot, cpReadersDone, cpResult>>

(* A process of the command starts another one, which may let go of the
   pipes, ignore SIGTERM, or leave the group. *)
CpForks(p, q) ==
    /\ CpAlive(p) /\ ~cpProc[p].kill /\ cpProc[q].life = "none"
    /\ \E stubborn, pipe, apart \in BOOLEAN :
         /\ pipe => cpProc[p].pipe
         /\ cpProc[p].apart => apart
         /\ cpProc' = [cpProc EXCEPT ![q] = CpProcess("alive", stubborn, pipe, apart)]
    /\ CpSameWait /\ UNCHANGED cpWritten

CpWrites(p) ==
    /\ p \in CpHolders /\ ~cpProc[p].kill /\ cpWritten < CpMaxChunks
    /\ cpWritten' = cpWritten + 1
    /\ CpSameWait /\ UNCHANGED cpProc

(* A process ends by itself or from a signal. *)
CpDies(p) ==
    /\ CpAlive(p)
    /\ cpProc' = [cpProc EXCEPT ![p].life =
            IF cpProc[p].kill \/ (cpProc[p].term /\ ~cpProc[p].stubborn)
            THEN "signalled" ELSE "ended"]
    /\ CpSameWait /\ UNCHANGED cpWritten

CpCancel ==
    /\ cpAt = "waiting" /\ ~cpCancelled /\ cpCancelled' = TRUE
    /\ UNCHANGED <<cpAt, cpMode, cpProc, cpSince, cpExit, cpWritten, cpGot,
                   cpReadersDone, cpResult>>

--------------------------------------------------------------------------------
(* terminate_child signals the processes that are in the group now. *)
CpSignalled(procs, signal) ==
    [p \in CpProcs |->
        IF procs[p].life = "alive" /\ ~procs[p].apart
        THEN IF signal = "term" THEN [procs[p] EXCEPT !.term = TRUE]
             ELSE [procs[p] EXCEPT !.kill = TRUE]
        ELSE procs[p]]

(* ChildCancellation::poll. *)
CpPolled ==
    IF ~cpCancelled THEN cpProc
    ELSE IF cpSince = 0 THEN CpSignalled(cpProc, "term")
    ELSE IF cpSince > CpGrace THEN CpSignalled(cpProc, "kill")
    ELSE cpProc
CpNextSince ==
    IF ~cpCancelled \/ cpSince > CpGrace THEN {cpSince}
    ELSE IF cpSince = 0 THEN {1} ELSE {cpSince, cpSince + 1}

CpSeen == IF cpExit = "none" /\ ~CpAlive(CpLeader) THEN cpProc[CpLeader].life ELSE cpExit

(* One round of the captured loop: poll, take one event of the readers or
   none, try_wait; the loop ends after both. *)
CpEnds_WhenExited(readers, exit) == exit # "none"    \* mutant: && for ||
CpEnds(readers, exit) == readers /\ exit # "none"
CpRoundCaptured ==
    /\ cpAt = "waiting" /\ cpMode = "captured"
    /\ cpProc' = CpPolled /\ cpSince' \in CpNextSince
    /\ cpExit' = CpSeen
    /\ \/ cpGot < cpWritten /\ cpGot' = cpGot + 1 /\ UNCHANGED cpReadersDone
       \/ /\ cpGot = cpWritten /\ CpHolders = {} /\ cpReadersDone' = TRUE
          /\ UNCHANGED cpGot
       \/ UNCHANGED <<cpGot, cpReadersDone>>
    /\ IF CpEnds(cpReadersDone', cpExit')
       THEN cpAt' = "returned" /\ cpResult' \in
                (IF cpExit' = "ended" THEN {"ok", "failed"} ELSE {"failed"})
       ELSE UNCHANGED <<cpAt, cpResult>>
    /\ UNCHANGED <<cpMode, cpCancelled, cpWritten>>

(* One round of run_piped_persistent: a persistent step should not end by
   itself, and its end is no failure when it was cancelled or signalled. *)
CpRoundPiped ==
    /\ cpAt = "waiting" /\ cpMode = "piped"
    /\ cpProc' = CpPolled /\ cpSince' \in CpNextSince
    /\ cpExit' = CpSeen
    /\ IF cpExit' # "none"
       THEN /\ cpAt' = "returned"
            /\ cpResult' = IF cpCancelled \/ cpExit' = "signalled" THEN "ok" ELSE "failed"
       ELSE UNCHANGED <<cpAt, cpResult>>
    /\ UNCHANGED <<cpMode, cpCancelled, cpWritten, cpGot, cpReadersDone>>

(* pump_pipe, while and after a persistent step is waited for. *)
CpPump ==
    /\ cpMode = "piped" /\ cpGot < cpWritten /\ cpGot' = cpGot + 1
    /\ UNCHANGED <<cpAt, cpMode, cpProc, cpCancelled, cpSince, cpExit, cpWritten,
                   cpReadersDone, cpResult>>

(* One round of wait_for_child: poll, try_wait, force_if_cancelled. *)
CpForced(procs) == IF cpCancelled THEN CpSignalled(procs, "kill") ELSE procs
CpRoundInherited ==
    /\ cpAt = "waiting" /\ cpMode = "inherited"
    /\ cpSince' \in CpNextSince /\ cpExit' = CpSeen
    /\ IF cpExit' # "none"
       THEN /\ cpAt' = "returned" /\ cpProc' = CpForced(CpPolled)
            /\ cpResult' \in (IF cpExit' = "ended" THEN {"ok", "failed"} ELSE {"failed"})
       ELSE cpProc' = CpPolled /\ UNCHANGED <<cpAt, cpResult>>
    /\ UNCHANGED <<cpMode, cpCancelled, cpWritten, cpGot, cpReadersDone>>

CpNext ==
    \/ CpSpawn
    \/ \E p \in CpProcs, q \in CpProcs \ {CpLeader} : CpForks(p, q)
    \/ \E p \in CpProcs : CpWrites(p)
    \/ \E p \in CpProcs : CpDies(p)
    \/ CpCancel
    \/ CpRoundCaptured
    \/ CpRoundPiped
    \/ CpPump
    \/ CpRoundInherited

CpSpec == CpInit /\ [][CpNext]_cpVars

--------------------------------------------------------------------------------
CpTypeOK ==
    /\ cpAt \in {"idle", "waiting", "returned"} /\ cpMode \in CpModes
    /\ \A p \in CpProcs : cpProc[p].life \in {"none", "alive", "ended", "signalled"}
    /\ cpSince \in 0..(CpGrace + 1)
    /\ cpExit \in {"none", "ended", "signalled"}
    /\ cpWritten \in 0..CpMaxChunks /\ cpGot \in 0..cpWritten
    /\ cpResult \in {"none", "ok", "failed"}

(* What a captured command returns is all the output its pipes ever carry:
   nothing is written after, by whatever process it left behind, because
   nobody is left who could. *)
CpOutputIsComplete ==
    cpAt = "returned" /\ cpMode = "captured" => cpGot = cpWritten /\ CpHolders = {}

(* After a cancelled command has been waited for, no process of its group
   goes on: with wait_for_child each is dead or killed, children that ignore
   SIGTERM or were started after it included; a captured command leaves none
   that holds its pipes.  (A persistent step promises this of the command
   itself only.) *)
CpNothingGoesOn ==
    cpAt = "returned" /\ cpCancelled =>
        /\ cpMode = "inherited" => \A p \in CpGroup : cpProc[p].kill
        /\ ~CpAlive(CpLeader)

CpSafety == CpOutputIsComplete /\ CpNothingGoesOn
================================================================================

------------------------- MODULE DependencyOrderedRun -------------------------
(***************************************************************************)
(* What a multi-project run promises, without counters, ready lists,       *)
(* threads or channels: projects are in flight one bounded batch at a      *)
(* time, each starts at most once and only when the selected projects it   *)
(* directly depends on have succeeded, and a run that ends without an      *)
(* internal error has left nothing startable behind.                       *)
(***************************************************************************)
EXTENDS FiniteSets, Naturals

CONSTANTS
    Projects,
    MaxParallel

VARIABLES
    needs,      \* [Projects -> SUBSET Projects]: what each selected project waits for
    chosen,     \* the selected projects
    inFlight,   \* projects whose task has started and not been collected
    succeeded,  \* projects whose task is known to have succeeded
    ended,      \* projects whose task has been collected, whatever the outcome
    verdict     \* "running", then "completed" or "error"

vars == <<needs, chosen, inFlight, succeeded, ended, verdict>>

Startable == {p \in chosen \ (inFlight \cup ended) : needs[p] \subseteq succeeded}

Init ==
    /\ chosen \in SUBSET Projects
    /\ needs \in [Projects -> SUBSET chosen]
    /\ inFlight = {} /\ succeeded = {} /\ ended = {}
    /\ verdict = "running"

Start(p) ==
    /\ verdict = "running"
    /\ p \in Startable
    /\ Cardinality(inFlight) < MaxParallel
    /\ inFlight' = inFlight \cup {p}
    /\ UNCHANGED <<needs, chosen, succeeded, ended, verdict>>

Collect(p) ==
    /\ p \in inFlight
    /\ inFlight' = inFlight \ {p}
    /\ ended' = ended \cup {p}
    /\ succeeded' \in {succeeded, succeeded \cup {p}}
    /\ UNCHANGED <<needs, chosen, verdict>>

(* A completed run has tried everything that was ever startable, so a project it
   skipped sits behind one that did not succeed. *)
End ==
    /\ verdict = "running"
    /\ inFlight = {}
    /\ \/ verdict' = "completed" /\ Startable = {}
       \/ verdict' = "error"
    /\ UNCHANGED <<needs, chosen, inFlight, succeeded, ended>>

Next == End \/ \E p \in Projects : Start(p) \/ Collect(p)

Spec == Init /\ [][Next]_vars
================================================================================

SPECIFICATION Spec
CONSTANTS
    Storers = {s1}
    Importers = {i1}
    Restorers = {r1}
    Pruners = {p1}
    Earlier = e
    NoProc = NoProc
    Artifacts = {"archive", "stdout"}
    Attempts = 1
    LocksAge = TRUE
INVARIANTS
    LocksAreReleased
CHECK_DEADLOCK FALSE

SPECIFICATION Spec
CONSTANTS
    Storers = {s1}
    Importers = {i1}
    Restorers = {r1}
    Pruners = {}
    Earlier = e
    NoProc = NoProc
    Artifacts = {"stdout"}
    Attempts = 1
    LocksAge = FALSE
INVARIANTS
    HitsReplayOneRun
CHECK_DEADLOCK FALSE

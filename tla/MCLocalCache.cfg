SPECIFICATION FairSpec
CONSTANTS
    Storers = {s1, s2, s3}
    Importers = {}
    Restorers = {r1}
    Pruners = {}
    Earlier = e
    NoProc = NoProc
    Artifacts = {"archive", "stdout"}
    Attempts = 1
    LocksAge = FALSE
INVARIANTS
    TypeOK
    OneHolder
    HitsReplayOneRun
PROPERTIES
    InstalledWhole
    WholeEntriesStay
    OperationsEnd
CHECK_DEADLOCK FALSE

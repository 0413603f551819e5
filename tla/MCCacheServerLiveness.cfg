SPECIFICATION FairSpec
CONSTANTS
    Keys = {k1}
    Results = {a}
    Uploads = {u1, u2}
    Readers = {r1}
    Quota = 2
    NoUpload = NoUpload
    NoResult = NoResult
PROPERTIES
    ReservationsEnd
    OrphansEnd
    FailedKeysAreFreed
CHECK_DEADLOCK FALSE

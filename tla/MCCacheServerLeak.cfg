SPECIFICATION FairSpec
CONSTANTS
    Keys = {k1}
    Results = {a}
    Uploads = {u1}
    Readers = {}
    Quota = 1
    NoUpload = NoUpload
    NoResult = NoResult
PROPERTIES
    UnreferencedObjectsAreEvicted
CHECK_DEADLOCK FALSE

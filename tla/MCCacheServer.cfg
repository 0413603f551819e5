SPECIFICATION Spec
CONSTANTS
    Keys = {k1}
    Results = {a, b}
    Uploads = {u1, u2, u3}
    Readers = {r1}
    Quota = 2
    NoUpload = NoUpload
    NoResult = NoResult
SYMMETRY Symmetry
INVARIANTS
    TypeOK
    VisibleEntriesAreStored
    ReservationsAreExact
    WithinQuota
PROPERTIES
    RowOutlivesObject
    ImplementsStore
CHECK_DEADLOCK FALSE

CONSTANTS
    r1 = r1
    r2 = r2
    r3 = r3
    r4 = r4
    Rows <- MCRows
    ExtIds <- MCExtIds
    Attrs <- MCAttrs
    NoExt = NoExt
    Absent = Absent
    MaxCloudChanges = 2
    MaxRequests = 2
    ListenerType = "http"
SPECIFICATION Spec
SYMMETRY RowSymmetry
INVARIANT QuietSyncReflectsCloud

CONSTANTS
    OldStatuses <- MCOldStatuses
    VM_SNAPSHOT = "snapshot"
    VM_SNAPSHOT_FAILED = "snapshot_failed"
    GuestOSes <- MCGuestOSes
SPECIFICATION FairSpec
\* A finished task really stops: no step is enabled once it has ended.
CHECK_DEADLOCK FALSE
PROPERTY Termination

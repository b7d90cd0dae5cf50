-------------------------- MODULE SnapshotLifecycle --------------------------
(***************************************************************************)
(* What a disk-snapshot task promises about its guest and its snapshot     *)
(* record: the guest is shown in VM_SNAPSHOT while the snapshot is being   *)
(* taken; on success the snapshot is ready and the guest gets back the     *)
(* status it had before; on failure, at any point, the guest is shown in   *)
(* VM_SNAPSHOT_FAILED and the snapshot is not made ready.                  *)
(***************************************************************************)
CONSTANTS
    OldStatuses,          \* statuses a guest may have when the task starts
    VM_SNAPSHOT,
    VM_SNAPSHOT_FAILED

VARIABLES
    phase,     \* "before" | "taking" | "done"
    status,    \* the guest's status
    origin,    \* the status the guest had when the task started
    snapshot   \* the snapshot record's status: "creating" | "ready"

Init ==
    /\ phase = "before"
    /\ status \in OldStatuses
    /\ origin = status
    /\ snapshot = "creating"

Begin ==
    /\ phase = "before"
    /\ phase' = "taking"
    /\ status' = VM_SNAPSHOT
    /\ UNCHANGED <<origin, snapshot>>

Succeed ==
    /\ phase = "taking"
    /\ phase' = "done"
    /\ status' = origin
    /\ snapshot' = "ready"
    /\ UNCHANGED origin

Fail ==
    /\ phase \in {"before", "taking"}
    /\ phase' = "done"
    /\ status' = VM_SNAPSHOT_FAILED
    /\ UNCHANGED <<origin, snapshot>>

Next == Begin \/ Succeed \/ Fail

Spec == Init /\ [][Next]_<<phase, status, origin, snapshot>>
=============================================================================

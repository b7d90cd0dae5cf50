------------------------ MODULE GuestDiskSnapshotTask ------------------------
(***************************************************************************)
(* GuestDiskSnapshotTask (pkg/compute/tasks/guest/guest_disk_snapshot_task *)
(* .go): a taskman task that puts the guest in VM_SNAPSHOT, asks the       *)
(* host (through the guest driver) to snapshot one disk, and finishes in   *)
(* the stage callback OnDiskSnapshotComplete(Failed).                      *)
(*                                                                         *)
(* taskman itself is not part of this tree.  It is modelled by what the    *)
(* task relies on: SetStage names the callback the next event is           *)
(* dispatched to, SetStageComplete / SetStageFailed end the task, and the  *)
(* host answers a request with one callback, successful (with or without  *)
(* a "location" in its data) or failed.  The task's stage is stage; the    *)
(* terminal stages are "complete" and "failed".                            *)
(***************************************************************************)
EXTENDS Naturals

CONSTANTS
    OldStatuses,          \* guest statuses the task may start from
    VM_SNAPSHOT,          \* api.VM_SNAPSHOT
    VM_SNAPSHOT_FAILED,   \* api.VM_SNAPSHOT_FAILED
    GuestOSes             \* what guest.GetOS() may return

VARIABLES
    stage,        \* "OnInit" | "OnDiskSnapshotComplete" | "complete" | "failed"
    params,       \* which of disk_id, snapshot_id the task params carry
    guestStatus,  \* guest.Status
    oldStatus,    \* params guest_old_status ("" until SetStage stores it)
    diskType,     \* the snapshot's DiskType: "sys" | "data"
    guestOS,      \* guest.GetOS()
    snapshot,     \* the snapshot record: [status, location, osType]
    request,      \* "none" | "sent": RequestDiskSnapshot reached the host
    inbox,        \* the host's answer: "none" | "location" | "nolocation" | "failed" | "consumed"
    startStatus   \* history: the guest's status when the task was created

vars == <<stage, params, guestStatus, oldStatus, diskType, guestOS, snapshot, request, inbox,
         startStatus>>

Init ==
    /\ stage = "OnInit"
    /\ params \in [diskId: BOOLEAN, snapshotId: BOOLEAN]
    /\ guestStatus \in OldStatuses
    /\ oldStatus = ""
    /\ diskType \in {"sys", "data"}
    /\ guestOS \in GuestOSes
    /\ snapshot = [status |-> "creating", location |-> "", osType |-> ""]
    /\ request = "none"
    /\ inbox = "none"
    /\ startStatus = guestStatus

\* TaskFailed: guest to VM_SNAPSHOT_FAILED, action log, SetStageFailed.
TaskFailed ==
    /\ guestStatus' = VM_SNAPSHOT_FAILED
    /\ stage' = "failed"

TaskComplete ==
    /\ guestStatus' = oldStatus
    /\ stage' = "complete"

\* Mutant of OnInit: the guest set to VM_SNAPSHOT before its status is
\* saved as guest_old_status.
OnInitStatusFirst(driverOk, requestOk) ==
    /\ stage = "OnInit"
    /\ IF ~params.diskId \/ ~params.snapshotId
       THEN /\ TaskFailed /\ UNCHANGED <<oldStatus, request>>
       ELSE /\ oldStatus' = VM_SNAPSHOT
            /\ IF driverOk /\ requestOk
               THEN /\ stage' = "OnDiskSnapshotComplete"
                    /\ guestStatus' = VM_SNAPSHOT
                    /\ request' = "sent"
               ELSE /\ TaskFailed /\ UNCHANGED request
    /\ UNCHANGED <<params, diskType, guestOS, snapshot, inbox, startStatus>>

(***************************************************************************)
(* OnInit / DoDiskSnapshot: fail when disk_id or snapshot_id is missing;   *)
(* otherwise save the guest's status as guest_old_status with SetStage,    *)
(* set VM_SNAPSHOT, and fail if the driver cannot be found or refuses the  *)
(* request.                                                                *)
(***************************************************************************)
OnInit(driverOk, requestOk) ==
    /\ stage = "OnInit"
    /\ IF ~params.diskId \/ ~params.snapshotId
       THEN /\ TaskFailed /\ UNCHANGED <<oldStatus, request>>
       ELSE /\ oldStatus' = guestStatus
            /\ IF driverOk /\ requestOk
               THEN /\ stage' = "OnDiskSnapshotComplete"
                    /\ guestStatus' = VM_SNAPSHOT
                    /\ request' = "sent"
               ELSE /\ TaskFailed /\ UNCHANGED request
    /\ UNCHANGED <<params, diskType, guestOS, snapshot, inbox, startStatus>>

\* The host answers the request once (environment).
HostReply(kind) ==
    /\ request = "sent"
    /\ inbox = "none"
    /\ inbox' = kind
    /\ UNCHANGED <<stage, params, guestStatus, oldStatus, diskType, guestOS, snapshot, request, startStatus>>

(***************************************************************************)
(* OnDiskSnapshotComplete: data without "location" is logged and the      *)
(* handler returns, leaving the stage as it is; otherwise the snapshot     *)
(* record is updated (location, READY, the guest's OS for a system disk)   *)
(* and the task completes, or fails if the update fails.                   *)
(***************************************************************************)
OnDiskSnapshotComplete(updateOk) ==
    /\ stage = "OnDiskSnapshotComplete"
    /\ inbox \in {"location", "nolocation"}
    /\ inbox' = "consumed"
    /\ CASE inbox = "nolocation" ->
              UNCHANGED <<stage, guestStatus, snapshot>>
         [] ~updateOk ->
              TaskFailed /\ UNCHANGED snapshot
         [] OTHER ->
              /\ snapshot' = [status |-> "ready", location |-> "loc",
                              osType |-> IF diskType = "sys" THEN guestOS ELSE ""]
              /\ TaskComplete
    /\ UNCHANGED <<params, oldStatus, diskType, guestOS, request, startStatus>>

OnDiskSnapshotCompleteFailed ==
    /\ stage = "OnDiskSnapshotComplete"
    /\ inbox = "failed"
    /\ inbox' = "consumed"
    /\ TaskFailed
    /\ UNCHANGED <<params, oldStatus, diskType, guestOS, snapshot, request, startStatus>>

Next ==
    \/ \E d, r \in BOOLEAN : OnInit(d, r)
    \/ \E k \in {"location", "nolocation", "failed"} : HostReply(k)
    \/ \E u \in BOOLEAN : OnDiskSnapshotComplete(u)
    \/ OnDiskSnapshotCompleteFailed

Spec == Init /\ [][Next]_vars

\* taskman dispatches every queued event and the host agent answers every
\* request it received: each step that stays enabled is eventually taken.
FairSpec ==
    /\ Spec
    /\ WF_vars(\E d, r \in BOOLEAN : OnInit(d, r))
    /\ WF_vars(\E k \in {"location", "nolocation", "failed"} : HostReply(k))
    /\ WF_vars(\E u \in BOOLEAN : OnDiskSnapshotComplete(u))
    /\ WF_vars(OnDiskSnapshotCompleteFailed)

-----------------------------------------------------------------------------
(* Properties *)

TypeOK ==
    /\ stage \in {"OnInit", "OnDiskSnapshotComplete", "complete", "failed"}
    /\ guestStatus \in OldStatuses \cup {VM_SNAPSHOT, VM_SNAPSHOT_FAILED}
    /\ oldStatus \in OldStatuses \cup {""}
    /\ snapshot.status \in {"creating", "ready"}
    /\ inbox \in {"none", "location", "nolocation", "failed", "consumed"}

\* The task implements the snapshot lifecycle: the guest is in VM_SNAPSHOT
\* exactly while the host works, success gives back the guest's earlier
\* status together with a ready snapshot, and every failure path shows
\* VM_SNAPSHOT_FAILED and leaves the snapshot unready.
Lifecycle == INSTANCE SnapshotLifecycle WITH
    phase    <- CASE stage = "OnInit" -> "before"
                  [] stage = "OnDiskSnapshotComplete" -> "taking"
                  [] OTHER -> "done",
    status   <- guestStatus,
    origin   <- startStatus,
    snapshot <- snapshot.status

Termination == <>(stage \in {"complete", "failed"})
=============================================================================

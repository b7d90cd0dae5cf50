------------------------ MODULE BaremetalUnconvertTask ------------------------
(***************************************************************************)
(* BaremetalUnconvertHypervisorTask (pkg/compute/tasks/baremetal/          *)
(* baremetal_unconvert_hypervisor_task.go): turn a baremetal host that     *)
(* was converted into a hypervisor back into a plain baremetal.  OnInit    *)
(* sets BAREMETAL_CONVERTING, deletes the one guest the conversion created *)
(* (a child GuestDeleteTask), drops the host's isolated devices, then      *)
(* FinishUnconvert and a child prepare task; a failed guest delete runs a  *)
(* child syncstatus task instead.                                          *)
(*                                                                         *)
(* Child tasks are started with this task as parent: when one ends,        *)
(* taskman dispatches the stage callback set before it was started, the    *)
(* "...Failed" variant if the child failed.  event holds that pending      *)
(* notification.                                                           *)
(***************************************************************************)
EXTENDS Naturals

CONSTANTS
    BAREMETAL_CONVERTING,  \* api.BAREMETAL_CONVERTING
    HostStatuses,          \* statuses the host may have before the task
    MaxGuests              \* bound on the guests the host may carry

VARIABLES
    stage,       \* the stage callback set, or "complete" | "failed"
    hostStatus,  \* baremetal.Status
    guests,      \* number of guests on the host
    unconverted, \* FinishUnconvert has succeeded on the host
    devices,     \* the host still has isolated-device rows
    child,       \* the running child task: "none" | "delete" | "prepare" | "syncstatus"
    event,       \* the child's pending notification: "none" | "ok" | "failed"
    initPc       \* OnInit's progress: "run" | "devices" (line 59 still to run) | "done"

vars == <<stage, hostStatus, guests, unconverted, devices, child, event, initPc>>

Init ==
    /\ stage = "OnInit"
    /\ hostStatus \in HostStatuses
    /\ guests \in 0..MaxGuests
    /\ unconverted = FALSE
    /\ devices = TRUE
    /\ child = "none"
    /\ event = "none"
    /\ initPc = "run"

Ended == stage \in {"complete", "failed"}

\* OnGuestDeleteComplete's body (it is also called directly by OnInit):
\* fail if the host driver is missing, else FinishUnconvert (its error is
\* only logged), SetStage("OnPrepareComplete") and StartPrepareTask.
GuestDeleteComplete(driverOk, finishOk) ==
    IF driverOk
    THEN /\ unconverted' = finishOk
         /\ stage' = "OnPrepareComplete"
         /\ child' = "prepare"
    ELSE /\ stage' = "failed"
         /\ UNCHANGED <<unconverted, child>>

\* Mutant of OnInit: the guest-count check dropped; the first guest is
\* deleted and the others are ignored.
OnInitNoCountCheck(getOk, driverOk, finishOk) ==
    /\ initPc = "run"
    /\ hostStatus' = BAREMETAL_CONVERTING
    /\ CASE ~getOk     -> stage' = "failed"
                           /\ initPc' = "done" /\ UNCHANGED <<unconverted, child>>
         [] guests >= 1 -> /\ stage' = "OnGuestDeleteComplete"
                           /\ child' = "delete" /\ UNCHANGED unconverted
                           /\ initPc' = "devices"
         [] OTHER      -> GuestDeleteComplete(driverOk, finishOk) /\ initPc' = "devices"
    /\ UNCHANGED <<guests, devices, event>>

(***************************************************************************)
(* OnInit: BAREMETAL_CONVERTING; fail if GetGuests fails or finds more     *)
(* than one guest; with one guest, SetStage("OnGuestDeleteComplete") and   *)
(* start its delete; with none, run OnGuestDeleteComplete at once.  Both   *)
(* of the last two go on to DeleteDevicesByHost.                           *)
(***************************************************************************)
OnInit(getOk, driverOk, finishOk) ==
    /\ initPc = "run"
    /\ hostStatus' = BAREMETAL_CONVERTING
    /\ CASE ~getOk      -> stage' = "failed"
                           /\ initPc' = "done" /\ UNCHANGED <<unconverted, child>>
         [] guests > 1  -> stage' = "failed"
                           /\ initPc' = "done" /\ UNCHANGED <<unconverted, child>>
         [] guests = 1  -> /\ stage' = "OnGuestDeleteComplete"
                           /\ child' = "delete" /\ UNCHANGED unconverted
                           /\ initPc' = "devices"
         [] OTHER       -> GuestDeleteComplete(driverOk, finishOk) /\ initPc' = "devices"
    /\ UNCHANGED <<guests, devices, event>>

\* The child GuestDeleteTask ends: it deletes guests[0], or fails.
DeleteGuestDone(ok) ==
    /\ child = "delete"
    /\ child' = "none"
    /\ event' = IF ok THEN "ok" ELSE "failed"
    /\ guests' = IF ok /\ guests > 0 THEN guests - 1 ELSE guests
    /\ UNCHANGED <<unconverted, stage, hostStatus, devices, initPc>>

\* The child prepare task ends: the host is prepared as a baremetal.
PrepareDone ==
    /\ child = "prepare"
    /\ child' = "none"
    /\ event' = "ok"
    /\ hostStatus' = "ready"
    /\ UNCHANGED <<unconverted, stage, guests, devices, initPc>>

\* The child syncstatus task ends: the host's real status is read back.
SyncstatusDone ==
    /\ child = "syncstatus"
    /\ child' = "none"
    /\ event' = "ok"
    /\ \E s \in HostStatuses : hostStatus' = s
    /\ UNCHANGED <<unconverted, stage, guests, devices, initPc>>

\* Other requests on the host's guests, independent of this task: the
\* scheduler places a new guest only on a host that is not converting, and
\* a user may delete a guest at any time.
GuestCreatedElsewhere ==
    /\ hostStatus # BAREMETAL_CONVERTING
    /\ guests < MaxGuests
    /\ guests' = guests + 1
    /\ UNCHANGED <<unconverted, stage, hostStatus, devices, child, event, initPc>>

GuestDeletedElsewhere ==
    /\ guests > 0
    /\ guests' = guests - 1
    /\ UNCHANGED <<unconverted, stage, hostStatus, devices, child, event, initPc>>

\* DeleteDevicesByHost, the last line of OnInit.  taskman runs a parent's
\* callbacks on its worker pool as soon as a child ends, so this line may
\* run after any of the steps above.
DeleteDevicesByHost ==
    /\ initPc = "devices"
    /\ initPc' = "done"
    /\ devices' = FALSE
    /\ UNCHANGED <<unconverted, stage, hostStatus, guests, child, event>>

OnGuestDeleteComplete(driverOk, finishOk) ==
    /\ stage = "OnGuestDeleteComplete"
    /\ event = "ok"
    /\ event' = "none"
    /\ GuestDeleteComplete(driverOk, finishOk)
    /\ UNCHANGED <<hostStatus, guests, devices, initPc>>

\* Mutant of OnGuestDeleteCompleteFailed: the stage is set but the
\* syncstatus task is not started.
OnGuestDeleteCompleteFailedNoSync ==
    /\ stage = "OnGuestDeleteComplete"
    /\ event = "failed"
    /\ event' = "none"
    /\ stage' = "OnFailSyncstatusComplete"
    /\ UNCHANGED <<unconverted, hostStatus, guests, devices, child, initPc>>

\* OnGuestDeleteCompleteFailed: SetStage("OnFailSyncstatusComplete") and
\* StartSyncstatus.
OnGuestDeleteCompleteFailed ==
    /\ stage = "OnGuestDeleteComplete"
    /\ event = "failed"
    /\ event' = "none"
    /\ stage' = "OnFailSyncstatusComplete"
    /\ child' = "syncstatus"
    /\ UNCHANGED <<unconverted, hostStatus, guests, devices, initPc>>

OnPrepareComplete ==
    /\ stage = "OnPrepareComplete"
    /\ event = "ok"
    /\ event' = "none"
    /\ stage' = "complete"
    /\ UNCHANGED <<unconverted, hostStatus, guests, devices, child, initPc>>

OnFailSyncstatusComplete ==
    /\ stage = "OnFailSyncstatusComplete"
    /\ event = "ok"
    /\ event' = "none"
    /\ stage' = "failed"
    /\ UNCHANGED <<unconverted, hostStatus, guests, devices, child, initPc>>

Next ==
    \/ \E g, d, f \in BOOLEAN : OnInit(g, d, f)
    \/ DeleteDevicesByHost
    \/ ~Ended /\ (GuestCreatedElsewhere \/ GuestDeletedElsewhere)
    \/ \E ok \in BOOLEAN : DeleteGuestDone(ok)
    \/ PrepareDone
    \/ SyncstatusDone
    \/ \E d, f \in BOOLEAN : OnGuestDeleteComplete(d, f)
    \/ OnGuestDeleteCompleteFailed
    \/ OnPrepareComplete
    \/ OnFailSyncstatusComplete

Spec == Init /\ [][Next]_vars

\* taskman dispatches every notification and every child task ends.
FairSpec ==
    /\ Spec
    /\ WF_vars(\E g, d, f \in BOOLEAN : OnInit(g, d, f))
    /\ WF_vars(DeleteDevicesByHost)
    /\ WF_vars(\E ok \in BOOLEAN : DeleteGuestDone(ok))
    /\ WF_vars(PrepareDone)
    /\ WF_vars(SyncstatusDone)
    /\ WF_vars(\E d, f \in BOOLEAN : OnGuestDeleteComplete(d, f))
    /\ WF_vars(OnGuestDeleteCompleteFailed)
    /\ WF_vars(OnPrepareComplete)
    /\ WF_vars(OnFailSyncstatusComplete)

-----------------------------------------------------------------------------
(* Properties *)

\* The baremetal prepare task never runs on a host that still carries a
\* guest: it is started only when GetGuests found none or after the one
\* guest's delete task succeeded.
PrepareOnlyWithoutGuests ==
    child = "prepare" => guests = 0

\* Every unconvert task ends, completed or failed, once taskman dispatches
\* its callbacks and its child tasks end.
Termination == <>(Ended /\ child = "none" /\ initPc = "done")
=============================================================================

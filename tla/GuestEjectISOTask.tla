-------------------------- MODULE GuestEjectISOTask --------------------------
(***************************************************************************)
(* GuestEjectISOTask (pkg/compute/tasks/guest/guest_eject_iso_task.go):    *)
(* detach the ISO of one cdrom in the database (guest.EjectIso) and, when  *)
(* the guest is running, ask the host to hot-remove it from the VM, then   *)
(* finish in OnConfigSyncComplete(Failed).                                 *)
(*                                                                         *)
(* dbIso is the cdrom row's ISO, vmIso the ISO the running VM has mounted. *)
(* guest.EjectIso is not in this tree; it is taken by its use here: it     *)
(* clears the row and returns whether there was an ISO to eject.  The      *)
(* guest may be started or stopped by other tasks at any time: a start     *)
(* boots the VM from the database's cdrom, a stop unmounts everything.     *)
(***************************************************************************)
EXTENDS Naturals

CONSTANTS
    VM_RUNNING,   \* api.VM_RUNNING
    VM_READY,     \* api.VM_READY: stopped
    Cdroms,       \* the guest's cdrom ordinals, 0 among them
    Missing       \* the cdrom_ordinal param is absent

VARIABLES
    stage,        \* "OnInit" | "OnConfigSyncComplete" | "complete" | "failed"
    guestStatus,  \* guest.Status
    ordinal,      \* the cdrom_ordinal param, or Missing
    dbIso,        \* cdrom ordinal -> its row carries an ISO
    vmIso,        \* cdrom ordinal -> the running VM has its ISO mounted
    request,      \* "none" | "sent": RequestGuestHotRemoveIso reached the host
    inbox         \* the host's answer: "none" | "ok" | "failed" | "consumed"

vars == <<stage, guestStatus, ordinal, dbIso, vmIso, request, inbox>>

\* Params.Int("cdrom_ordinal") with its error dropped: 0 when missing.
cdromOrdinal == IF ordinal = Missing THEN 0 ELSE ordinal

\* guest.EjectIso: clear the row, report whether it carried an ISO.
EjectIso == dbIso' = [dbIso EXCEPT ![cdromOrdinal] = FALSE]
Ejected == dbIso[cdromOrdinal]

Init ==
    /\ stage = "OnInit"
    /\ guestStatus \in {VM_RUNNING, VM_READY}
    /\ ordinal \in Cdroms \cup {Missing}
    /\ dbIso \in [Cdroms -> BOOLEAN]
    /\ vmIso = [c \in Cdroms |-> dbIso[c] /\ guestStatus = VM_RUNNING]
    /\ request = "none"
    /\ inbox = "none"

Ended == stage \in {"complete", "failed"}

\* Mutant of startEjectIso: the database row is cleared and the task
\* completes without the hot-remove request to the host.
startEjectIsoNoHotRemove(driverOk) ==
    /\ stage = "OnInit"
    /\ EjectIso
    /\ stage' = "complete"
    /\ UNCHANGED <<guestStatus, ordinal, vmIso, request, inbox>>

\* Mutant of startEjectIso: SetStage and the driver lookup, but the
\* request to the host is never made.
startEjectIsoNoRequest(driverOk) ==
    /\ stage = "OnInit"
    /\ EjectIso
    /\ IF Ejected /\ guestStatus = VM_RUNNING
       THEN stage' = IF driverOk THEN "OnConfigSyncComplete" ELSE "failed"
       ELSE stage' = "complete"
    /\ UNCHANGED <<guestStatus, ordinal, vmIso, request, inbox>>

(***************************************************************************)
(* OnInit / startEjectIso: EjectIso clears the row; if it ejected an ISO   *)
(* and the guest is running, SetStage("OnConfigSyncComplete"), fail when   *)
(* the driver cannot be found, else send the hot-remove request (its       *)
(* result is not looked at).  Otherwise the task completes at once.        *)
(***************************************************************************)
startEjectIso(driverOk) ==
    /\ stage = "OnInit"
    /\ EjectIso
    /\ IF Ejected /\ guestStatus = VM_RUNNING
       THEN IF driverOk
            THEN /\ stage' = "OnConfigSyncComplete"
                 /\ request' = "sent"
            ELSE /\ stage' = "failed"
                 /\ UNCHANGED request
       ELSE /\ stage' = "complete"
            /\ UNCHANGED request
    /\ UNCHANGED <<guestStatus, ordinal, vmIso, inbox>>

\* The host answers the hot-remove request once; success unmounts the ISO
\* (a stopped VM makes the request fail).
HostReply(ok) ==
    /\ request = "sent"
    /\ inbox = "none"
    /\ inbox' = IF ok /\ guestStatus = VM_RUNNING THEN "ok" ELSE "failed"
    /\ vmIso' = IF ok /\ guestStatus = VM_RUNNING THEN [vmIso EXCEPT ![cdromOrdinal] = FALSE]
                                                          ELSE vmIso
    /\ UNCHANGED <<stage, guestStatus, ordinal, dbIso, request>>

\* Another task starts the guest: the VM boots with the database's cdrom.
GuestStart ==
    /\ guestStatus = VM_READY
    /\ guestStatus' = VM_RUNNING
    /\ vmIso' = dbIso
    /\ UNCHANGED <<stage, ordinal, dbIso, request, inbox>>

\* Another task stops the guest.
GuestStop ==
    /\ guestStatus = VM_RUNNING
    /\ guestStatus' = VM_READY
    /\ vmIso' = [c \in Cdroms |-> FALSE]
    /\ UNCHANGED <<stage, ordinal, dbIso, request, inbox>>

\* OnConfigSyncComplete: action log, SetStageComplete.
OnConfigSyncComplete ==
    /\ stage = "OnConfigSyncComplete"
    /\ inbox = "ok"
    /\ inbox' = "consumed"
    /\ stage' = "complete"
    /\ UNCHANGED <<guestStatus, ordinal, dbIso, vmIso, request>>

\* OnConfigSyncCompleteFailed: action log, SetStageFailed.
OnConfigSyncCompleteFailed ==
    /\ stage = "OnConfigSyncComplete"
    /\ inbox = "failed"
    /\ inbox' = "consumed"
    /\ stage' = "failed"
    /\ UNCHANGED <<guestStatus, ordinal, dbIso, vmIso, request>>

\* Guest starts and stops are bounded to the life of the task.
Next ==
    \/ \E d \in BOOLEAN : startEjectIso(d)
    \/ \E ok \in BOOLEAN : HostReply(ok)
    \/ ~Ended /\ (GuestStart \/ GuestStop)
    \/ OnConfigSyncComplete
    \/ OnConfigSyncCompleteFailed

Spec == Init /\ [][Next]_vars

\* taskman dispatches every event and the host answers every request.
\* Starts and stops of the guest are not required to happen.
FairSpec ==
    /\ Spec
    /\ WF_vars(\E d \in BOOLEAN : startEjectIso(d))
    /\ WF_vars(\E ok \in BOOLEAN : HostReply(ok))
    /\ WF_vars(OnConfigSyncComplete)
    /\ WF_vars(OnConfigSyncCompleteFailed)

-----------------------------------------------------------------------------
(* Properties *)

\* A completed eject means the ISO is gone from the database and, if the
\* guest is running, from the VM too: startEjectIso completes at once only
\* when nothing is mounted, and otherwise waits for the host's hot-remove.
EjectedWhenComplete ==
    stage = "complete" =>
        /\ ~dbIso[cdromOrdinal]
        /\ guestStatus = VM_RUNNING => ~vmIso[cdromOrdinal]

\* Every eject task ends, given that taskman dispatches its callbacks and
\* the host answers the hot-remove request.
Termination == <>Ended
=============================================================================

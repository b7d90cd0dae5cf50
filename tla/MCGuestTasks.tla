--------------------------- MODULE MCGuestTasks ---------------------------
(***************************************************************************)
(* Two of the region's tasks run by taskman side by side: an ISO eject on  *)
(* a guest (GuestEjectISOTask) and the unconvert of a baremetal host       *)
(* (BaremetalUnconvertTask).  They touch different rows and share no       *)
(* state; a step is a step of one of them, and each keeps the fairness of  *)
(* its own module: taskman dispatches every callback of each task.         *)
(***************************************************************************)
EXTENDS Naturals

CONSTANT Missing   \* the cdrom_ordinal param is absent

VARIABLES
    eStage, guestStatus, ordinal, dbIso, vmIso, request, inbox,
    uStage, hostStatus, guests, unconverted, devices, child, event, initPc

evars == <<eStage, guestStatus, ordinal, dbIso, vmIso, request, inbox>>
uvars == <<uStage, hostStatus, guests, unconverted, devices, child, event, initPc>>

\* Two cdroms: the ordinal named and one the task must leave alone.
E == INSTANCE GuestEjectISOTask
       WITH stage <- eStage, VM_RUNNING <- "running", VM_READY <- "ready",
            Cdroms <- {0, 1}

\* A converted host is running; "unknown" is a status syncstatus may read.
U == INSTANCE BaremetalUnconvertTask
       WITH stage <- uStage, BAREMETAL_CONVERTING <- "converting",
            HostStatuses <- {"running", "ready", "unknown"}, MaxGuests <- 3

Init == E!Init /\ U!Init

Next ==
    \/ E!Next /\ UNCHANGED uvars
    \/ U!Next /\ UNCHANGED evars

FairSpec ==
    /\ Init /\ [][Next]_<<evars, uvars>>
    /\ WF_evars(\E d \in BOOLEAN : E!startEjectIso(d))
    /\ WF_evars(\E ok \in BOOLEAN : E!HostReply(ok))
    /\ WF_evars(E!OnConfigSyncComplete)
    /\ WF_evars(E!OnConfigSyncCompleteFailed)
    /\ WF_uvars(\E g, d, f \in BOOLEAN : U!OnInit(g, d, f))
    /\ WF_uvars(U!DeleteDevicesByHost)
    /\ WF_uvars(\E ok \in BOOLEAN : U!DeleteGuestDone(ok))
    /\ WF_uvars(U!PrepareDone)
    /\ WF_uvars(U!SyncstatusDone)
    /\ WF_uvars(\E d, f \in BOOLEAN : U!OnGuestDeleteComplete(d, f))
    /\ WF_uvars(U!OnGuestDeleteCompleteFailed)
    /\ WF_uvars(U!OnPrepareComplete)
    /\ WF_uvars(U!OnFailSyncstatusComplete)

-----------------------------------------------------------------------------
(* The properties of the two task modules *)

\* A completed eject leaves no ISO in the cdrom row and, on a running
\* guest, none mounted in the VM (startEjectIso, OnConfigSyncComplete).
EjectedWhenComplete == E!EjectedWhenComplete

\* Every eject task ends once its callbacks are dispatched and the host
\* answers the hot-remove request.
EjectTermination == E!Termination

\* The baremetal prepare task is never started on a host that still
\* carries a guest (OnInit, OnGuestDeleteComplete).
PrepareOnlyWithoutGuests == U!PrepareOnlyWithoutGuests

\* Every unconvert task ends, with no child task left and OnInit done.
UnconvertTermination == U!Termination
=============================================================================

----------------------- MODULE MCGuestDiskSnapshotTask -----------------------
(* A guest that may start running, ready or suspended (a snapshot can be   *)
(* taken in any of them), both disk types, and every answer of the host.   *)
EXTENDS GuestDiskSnapshotTask

MCOldStatuses == {"running", "ready", "suspend"}
MCGuestOSes == {"Linux", "Windows"}
=============================================================================

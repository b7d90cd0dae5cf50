---------------------------- MODULE MCAlertRecord ----------------------------
(* One alert, three eval matches over two names (m1 and m3 share the      *)
(* resource vm1 but not the name), guest and host records, three records, *)
(* and a clock of three ticks with an expiry of one tick, so records tie  *)
(* on created_at, expire, and are written after all of an alert's        *)
(* records were deleted.                                                  *)
EXTENDS AlertRecord

MCMatches == {[name |-> "n1", key |-> "vm_id", id |-> "vm1"],
              [name |-> "n2", key |-> "host_id", id |-> "h1"],
              [name |-> "n2", key |-> "vm_id", id |-> "vm1"]}
=============================================================================

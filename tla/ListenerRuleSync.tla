-------------------------- MODULE ListenerRuleSync --------------------------
(***************************************************************************)
(* The life of the listener rules of one listener in the region database   *)
(* (pkg/compute/models/loadbalancerlistenerrules.go): rules created and    *)
(* deleted through the API (PostCreate, CustomizeDelete), and the cloud    *)
(* sync SyncLoadbalancerListenerRules that makes the database follow the  *)
(* provider's list of rules.                                               *)
(*                                                                         *)
(* A database row is [status, ext, attr]: status "none" is a slot never   *)
(* used, "deleted" a row removed;                                          *)
(* ext is the row's ExternalId (NoExt before the create task wrote it);    *)
(* attr stands for the fields constructFieldsFromCloudListenerRule copies. *)
(* The cloud is ExtIds -> Attrs \cup {Absent}.                             *)
(*                                                                         *)
(* Outside this file, and modelled by their use here:                      *)
(*  - compare.CompareSets matches database rows to cloud rules by external *)
(*    id; a row whose ext is not in the cloud list (NoExt included) is    *)
(*    "removed", a cloud rule no row carries is "added";                  *)
(*  - the create task creates the rule at the provider, then writes its    *)
(*    external id and the status enabled to the row; the delete task       *)
(*    removes the rule at the provider, then the row (RealDelete);         *)
(*  - ValidateDeleteCondition may refuse a delete.                         *)
(* The sync runs under the per-listener lock "listener-rules", so syncs    *)
(* never overlap: one sync process is enough.                              *)
(***************************************************************************)
EXTENDS Naturals, FiniteSets

CONSTANTS
    Rows,            \* row slots of the rule table
    ExtIds,          \* external ids the provider may give rules
    Attrs,           \* values of the synced fields
    NoExt, Absent,   \* sentinels: no external id yet; no such cloud rule
    MaxCloudChanges, \* bound on changes made directly at the provider
    MaxRequests,     \* bound on create and delete requests to the API
    ListenerType     \* the listener's ListenerType

VARIABLES
    row,        \* Rows -> [status, ext, attr]
    cloud,      \* ExtIds -> Attrs \cup {Absent}
    pending,    \* Rows -> the ext id a create task obtained, or NoExt
    deltask,    \* rows with a running delete task
    spc,        \* the sync: "idle" | "remove" | "update" | "add"
    snap,       \* the cloud list the sync was given
    removed,    \* rows the sync still has to remove
    common,     \* rows the sync still has to update
    added,      \* cloud rules the sync still has to add
    quiet,      \* a sync has run and no other step has happened since it began
    syncErr,    \* a step of the current sync failed
    changes,    \* provider-side changes made so far
    requests    \* API create and delete requests made so far

vars == <<row, cloud, pending, deltask, spc, snap, removed, common, added, quiet, syncErr, changes, requests>>

FreeRow == [status |-> "none", ext |-> NoExt, attr |-> Absent]
Live == {r \in Rows : row[r].status \notin {"none", "deleted"}}
\* Slots a new row may take: never used, or deleted and referenced by no
\* task and by no sync in progress (in the code every row has a fresh id).
Unused == {r \in Rows : /\ row[r].status \in {"none", "deleted"}
                         /\ r \notin removed \cup common \cup deltask
                         /\ pending[r] = NoExt}

\* The provider has a rule with this external id.
InCloud(x) == x # NoExt /\ cloud[x] # Absent

Init ==
    /\ row = [r \in Rows |-> FreeRow]
    /\ cloud = [e \in ExtIds |-> Absent]
    /\ pending = [r \in Rows |-> NoExt]
    /\ deltask = {}
    /\ spc = "idle"
    /\ snap = cloud
    /\ removed = {} /\ common = {} /\ added = {}
    /\ quiet = FALSE
    /\ syncErr = FALSE
    /\ changes = 0
    /\ requests = 0

\* Any step other than the sync's own ends the sync's quiet period.
Disturb == quiet' = FALSE

SyncVars == <<spc, snap, removed, common, added, syncErr>>

Request == /\ requests < MaxRequests
           /\ requests' = requests + 1

-----------------------------------------------------------------------------
(* API requests and the tasks they start *)

\* ValidateCreateData: rules only go on http and https listeners.  Its
\* other checks look up the models the request names (listener,
\* certificate, backend groups, redirect pools); a failed one refuses the
\* create and changes nothing, so it is no step.
ValidateCreateData == ListenerType \in {"http", "https"}

\* PostCreate: the new row is LB_CREATING and the create task is started.
\* (The table is finite here: a create leaves room for the rows a sync
\* may add.)
PostCreate(r, a) ==
    /\ ValidateCreateData
    /\ r \in Unused
    /\ Cardinality(Unused) > Cardinality(ExtIds)
    /\ row' = [row EXCEPT ![r] = [status |-> "creating", ext |-> NoExt, attr |-> a]]
    /\ Request
    /\ Disturb
    /\ UNCHANGED <<cloud, pending, deltask, changes>> /\ UNCHANGED SyncVars

\* The create task has the provider create the rule.
CreateTaskCloud(r, e) ==
    /\ row[r].status = "creating" /\ pending[r] = NoExt
    /\ cloud[e] = Absent /\ \A q \in Rows : pending[q] # e
    /\ cloud' = [cloud EXCEPT ![e] = row[r].attr]
    /\ pending' = [pending EXCEPT ![r] = e]
    /\ Disturb
    /\ UNCHANGED <<row, deltask, changes, requests>> /\ UNCHANGED SyncVars

\* The create task records the external id and the status on the row
\* (nothing to record on a row deleted meanwhile).
CreateTaskDone(r) ==
    /\ pending[r] # NoExt
    /\ row' = IF row[r].status = "deleted" THEN row
              ELSE [row EXCEPT ![r].ext = pending[r], ![r].status = "enabled"]
    /\ pending' = [pending EXCEPT ![r] = NoExt]
    /\ Disturb
    /\ UNCHANGED <<cloud, deltask, changes, requests>> /\ UNCHANGED SyncVars

\* CustomizeDelete: LB_STATUS_DELETING and the delete task is started
\* (Delete itself is a no-op; the task ends in RealDelete).
CustomizeDelete(r) ==
    /\ r \in Live /\ r \notin deltask
    /\ row[r].status \in {"enabled", "unknown"}
    /\ row' = [row EXCEPT ![r].status = "deleting"]
    /\ deltask' = deltask \cup {r}
    /\ Request
    /\ Disturb
    /\ UNCHANGED <<cloud, pending, changes>> /\ UNCHANGED SyncVars

\* The delete task has the provider delete the rule.
DeleteTaskCloud(r) ==
    /\ r \in deltask
    /\ InCloud(row[r].ext)
    /\ cloud' = [cloud EXCEPT ![row[r].ext] = Absent]
    /\ Disturb
    /\ UNCHANGED <<row, pending, deltask, changes, requests>> /\ UNCHANGED SyncVars

\* The delete task ends with RealDelete of the row.
DeleteTaskDone(r) ==
    /\ r \in deltask
    /\ ~InCloud(row[r].ext)
    /\ row' = [row EXCEPT ![r].status = "deleted"]
    /\ deltask' = deltask \ {r}
    /\ Disturb
    /\ UNCHANGED <<cloud, pending, changes, requests>> /\ UNCHANGED SyncVars

\* A change made directly at the provider.
CloudChange(e, a) ==
    /\ changes < MaxCloudChanges
    /\ cloud[e] # a
    /\ cloud' = [cloud EXCEPT ![e] = a]
    /\ changes' = changes + 1
    /\ Disturb
    /\ UNCHANGED <<row, pending, deltask, requests>> /\ UNCHANGED SyncVars

-----------------------------------------------------------------------------
(* SyncLoadbalancerListenerRules: one step per loop iteration.  The loops  *)
(* run in the order removed, common, added; NextPhase is the loop the sync *)
(* is in once its remaining work is rm, cm, ad.                            *)

NextPhase(rm, cm, ad) ==
    CASE rm # {} -> "remove"
      [] cm # {} -> "update"
      [] ad # {} -> "add"
      [] OTHER   -> "idle"

\* Mutant of RemovedRows: a row without an external id is matched to no
\* side and left alone.
RemovedRowsKnownOnly(cl) ==
    {r \in Live : row[r].ext # NoExt /\ cl[row[r].ext] = Absent}

\* Rows CompareSets puts in removed: no cloud rule carries their ext.
RemovedRows(cl) == {r \in Live : row[r].ext = NoExt \/ cl[row[r].ext] = Absent}

\* Cloud rules CompareSets puts in added: no row carries their id.
AddedRules(cl) == {e \in ExtIds : cl[e] # Absent /\ \A r \in Live : row[r].ext # e}

\* Fetch the rows (getLoadbalancerListenerRulesByListener) and compare
\* them with the cloud list.
SyncStart ==
    /\ spc = "idle"
    /\ LET rm == RemovedRows(cloud)
           cm == {r \in Live : InCloud(row[r].ext)}
           ad == AddedRules(cloud)
       IN /\ snap' = cloud
          /\ removed' = rm /\ common' = cm /\ added' = ad
          /\ spc' = NextPhase(rm, cm, ad)
    /\ syncErr' = FALSE
    /\ quiet' = TRUE
    /\ UNCHANGED <<row, cloud, pending, deltask, changes, requests>>

\* syncRemoveCloudLoadbalancerListenerRule: RealDelete, or, when
\* ValidateDeleteCondition refuses, LB_STATUS_UNKNOWN (a DeleteError).
SyncRemove(r, ok) ==
    /\ spc = "remove" /\ r \in removed
    /\ row' = CASE row[r].status = "deleted" -> row
                [] ok    -> [row EXCEPT ![r].status = "deleted"]
                [] OTHER -> [row EXCEPT ![r].status = "unknown"]
    /\ syncErr' = (syncErr \/ ~ok)
    /\ removed' = removed \ {r}
    /\ spc' = NextPhase(removed', common, added)
    /\ UNCHANGED <<cloud, pending, deltask, quiet, changes, requests, snap, common, added>>

\* constructFieldsFromCloudListenerRule: the row with the cloud rule's
\* fields and status.
constructFieldsFromCloudListenerRule(r) ==
    [row[r] EXCEPT !.attr = snap[row[r].ext], !.status = "enabled"]

\* SyncWithCloudLoadbalancerListenerRule: UpdateWithLock copies the cloud
\* rule's fields, its status included, onto the row fetched at the start
\* (an UpdateError when the update fails).
SyncUpdate(r, ok) ==
    /\ spc = "update" /\ r \in common
    /\ row' = IF ok /\ row[r].status # "deleted"
              THEN [row EXCEPT ![r] = constructFieldsFromCloudListenerRule(r)]
              ELSE row
    /\ syncErr' = (syncErr \/ ~ok)
    /\ common' = common \ {r}
    /\ spc' = NextPhase(removed, common', added)
    /\ UNCHANGED <<cloud, pending, deltask, quiet, changes, requests, snap, removed, added>>

\* newFromCloudLoadbalancerListenerRule: a new row with the cloud rule's
\* id and fields (an AddError when the Insert fails).
SyncAdd(e, ok) ==
    /\ spc = "add" /\ e \in added
    /\ \E r \in Unused :
          row' = IF ok THEN [row EXCEPT ![r] = [status |-> "enabled", ext |-> e, attr |-> snap[e]]]
                 ELSE row
    /\ syncErr' = (syncErr \/ ~ok)
    /\ added' = added \ {e}
    /\ spc' = NextPhase(removed, common, added')
    /\ UNCHANGED <<cloud, pending, deltask, quiet, changes, requests, snap, removed, common>>

Next ==
    \/ \E r \in Rows, a \in Attrs : PostCreate(r, a)
    \/ \E r \in Rows, e \in ExtIds : CreateTaskCloud(r, e)
    \/ \E r \in Rows : CreateTaskDone(r) \/ CustomizeDelete(r)
                       \/ DeleteTaskCloud(r) \/ DeleteTaskDone(r)
    \/ \E e \in ExtIds, a \in Attrs \cup {Absent} : CloudChange(e, a)
    \/ SyncStart
    \/ \E r \in Rows, ok \in BOOLEAN : SyncRemove(r, ok) \/ SyncUpdate(r, ok)
    \/ \E e \in ExtIds, ok \in BOOLEAN : SyncAdd(e, ok)

Spec == Init /\ [][Next]_vars

-----------------------------------------------------------------------------
(* Properties *)

\* After a sync that met no error and ran with nothing else happening, the
\* database holds exactly the provider's rules: every cloud rule has a live
\* row with its fields, and every live row is a cloud rule with the fields
\* the cloud gave it (CompareSets and the remove/update/add loops).
QuietSyncReflectsCloud ==
    spc = "idle" /\ quiet /\ ~syncErr =>
        /\ \A e \in ExtIds : snap[e] # Absent =>
               \E r \in Live : row[r].ext = e /\ row[r].attr = snap[e]
        /\ \A r \in Live : row[r].ext # NoExt /\ snap[row[r].ext] = row[r].attr
=============================================================================

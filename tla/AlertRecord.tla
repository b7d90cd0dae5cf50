----------------------------- MODULE AlertRecord -----------------------------
(***************************************************************************)
(* The alert-record table of the monitor service                           *)
(* (pkg/monitor/models/alertrecord.go).  The alert engine writes one       *)
(* record per evaluation result through the standard create path:          *)
(* CustomizeCreate (look up the alert's latest record, narrow an OK        *)
(* record's eval matches to those that were alerting, fill res_ids), the   *)
(* insert, which stamps created_at, and PostCreate.  A periodic job        *)
(* deletes records older than thirty days.                                 *)
(*                                                                         *)
(* Time is a tick counter; created_at is the tick of the insert, so two    *)
(* records of one tick tie (a DATETIME column has second precision) and    *)
(* Desc("created_at").First() may return either.  An eval match is         *)
(* [name, key, id]: its "name" tag and the one other tag it carries.       *)
(* res_ids is strings.Join of ids gathered while iterating a Go map, so    *)
(* its order is unspecified: it is kept as the set of ids.                 *)
(***************************************************************************)
EXTENDS Naturals

CONSTANTS
    Alerts,        \* alert ids
    Matches,       \* the eval matches an evaluation may report
    ResTypes,      \* record res_type values
    Ids,           \* resource ids carried by vm_id / host_id tags
    ExpireTicks,   \* thirty days, in ticks
    MaxTime,       \* bound on the clock
    MaxRecords     \* bound on the records created

ALERTING == "alerting"
OK == "ok"
States == {ALERTING, OK}

VARIABLES
    table,       \* the rows of alertrecord_tbl
    now,         \* the clock
    nextId,      \* ids handed to new rows (the row's identity)
    history      \* observation: each created record with the table as it
                 \* stood when its CustomizeCreate ran

vars == <<table, now, nextId, history>>

Record == [id : Nat, alert : Alerts, state : States, resType : ResTypes,
           matches : SUBSET Matches, resIds : SUBSET Ids, createdAt : Nat]

TypeOK ==
    /\ table \subseteq Record
    /\ now \in 0..MaxTime
    /\ history \subseteq [rec : Record, seen : SUBSET Record]

Init ==
    /\ table = {}
    /\ now = 0
    /\ nextId = 1
    /\ history = {}

-----------------------------------------------------------------------------
(* Helpers *)

\* The rows a query for one alert ordered by Desc("created_at") may return
\* first: those with the greatest created_at.
LatestOf(rows) ==
    {r \in rows : \A o \in rows : o.createdAt <= r.createdAt}

RecordsOf(a) == {r \in table : r.alert = a}

Names(ms) == {m.name : m \in ms}

\* The ids the res_ids loop collects: vm_id tags for agent and guest
\* records, host_id tags for host records.
TaggedIds(ms, resType) ==
    {m.id : m \in {m \in ms : \/ m.key = "vm_id" /\ resType \in {"agent", "guest"}
                              \/ m.key = "host_id" /\ resType = "host"}}

\* Mutant of unionEvalMatch: the matches are compared by resource id
\* instead of by their "name" tag.
unionEvalMatchById(ms, alerting) ==
    {m \in ms : \E l \in alerting : m.id = l.id}

\* unionEvalMatch: keep the new matches whose "name" tag is the name of one
\* of the alerting record's matches.
unionEvalMatch(ms, alerting) ==
    {m \in ms : \E l \in alerting : m.name = l.name}

\* Mutant of CustomizeCreate: res_ids is gathered from the matches as they
\* came in, before unionEvalMatch narrowed them.
CustomizeCreateEarlyResIds(rec, latest) ==
    LET kept == IF latest.state = ALERTING /\ rec.state = OK
                THEN unionEvalMatch(rec.matches, latest.matches)
                ELSE rec.matches
    IN [rec EXCEPT !.matches = kept,
                   !.resIds = TaggedIds(rec.matches, rec.resType)]

\* The part of CustomizeCreate after the latest record was found: narrow an
\* OK record that follows an alerting one, then fill res_ids.
CustomizeCreate(rec, latest) ==
    LET kept == IF latest.state = ALERTING /\ rec.state = OK
                THEN unionEvalMatch(rec.matches, latest.matches)
                ELSE rec.matches
    IN [rec EXCEPT !.matches = kept,
                   !.resIds = TaggedIds(kept, rec.resType)]

-----------------------------------------------------------------------------
(* The views of what is alerting now.  An alert (a CommonAlert row, not    *)
(* in this table) is given by [state, enabled, usedBy]; its state is        *)
(* "alerting", "pending" or "ok".  The owner filters are left out: one     *)
(* owner sees every row.                                                   *)

AlertStates == {ALERTING, "pending", OK}
AlertInfo == [state : AlertStates, enabled : BOOLEAN, usedBy : BOOLEAN]

\* getAlertingRecordQuery: for each enabled alert that no other alert uses
\* and that is alerting or pending, max(created_at) over its alerting
\* records that have a res_type (GROUP BY alert_id: an alert with no such
\* record has no row).
getAlertingRecordQuery(info) ==
    LET alerts == {a \in Alerts : /\ info[a].enabled /\ ~info[a].usedBy
                                  /\ info[a].state \in {ALERTING, "pending"}}
        rows(a) == {r \in RecordsOf(a) : r.state = ALERTING /\ r.resType # ""}
    IN [a \in {a \in alerts : rows(a) # {}} |->
          (CHOOSE r \in LatestOf(rows(a)) : TRUE).createdAt]

\* ListItemFilter with Alerting set (and no other filter but an optional
\* res_type): the records joined to that query on alert_id whose
\* created_at is the alert's max_created_at; without an AlertId filter only
\* records with a res_type.
ListAlerting(info, resType) ==
    LET maxAt == getAlertingRecordQuery(info)
    IN {r \in table : /\ r.alert \in DOMAIN maxAt
                      /\ r.createdAt = maxAt[r.alert]
                      /\ r.resType # ""
                      /\ resType # "" => r.resType = resType}

\* Mutant of getNowAlertingRecord: the records are not filtered on their
\* state.
getNowAlertingRecordAnyState(info, resType) ==
    LET alerts == {a \in Alerts : /\ info[a].state = ALERTING
                                  /\ info[a].enabled /\ ~info[a].usedBy}
        rows(a) == {r \in RecordsOf(a) : /\ r.resType # ""
                                         /\ resType # "" => r.resType = resType}
        picks(a) == IF rows(a) = {} THEN {{}} ELSE {{r} : r \in LatestOf(rows(a))}
    IN {f \in [alerts -> UNION {picks(a) : a \in alerts}] : \A a \in alerts : f[a] \in picks(a)}

\* getNowAlertingRecord: for each enabled, unused alert in state alerting,
\* First() of its alerting records with a res_type (and the requested
\* one), newest first; an alert without one adds nothing.  Ties on
\* created_at make First() pick any of the newest, so the result is the
\* set of the choices: per alert the record picked, as {r}, or {}.
getNowAlertingRecord(info, resType) ==
    LET alerts == {a \in Alerts : /\ info[a].state = ALERTING
                                  /\ info[a].enabled /\ ~info[a].usedBy}
        rows(a) == {r \in RecordsOf(a) : /\ r.state = ALERTING /\ r.resType # ""
                                         /\ resType # "" => r.resType = resType}
        picks(a) == IF rows(a) = {} THEN {{}} ELSE {{r} : r \in LatestOf(rows(a))}
    IN {f \in [alerts -> UNION {picks(a) : a \in alerts}] : \A a \in alerts : f[a] \in picks(a)}

-----------------------------------------------------------------------------
(* Actions *)

\* One record created by the alert engine (DoCreate): CustomizeCreate, then
\* the insert.  q.First fails with sql.ErrNoRows when the alert has no
\* record yet, and CustomizeCreate returns nil at once: the record is
\* inserted as it came, res_ids empty.  Any other error of the query fails
\* the create and changes nothing, so it is not a step of its own.
\* PostCreate only updates other tables and logs its errors.
CreateRecord(a, st, rt, ms) ==
    LET rows == RecordsOf(a)
        rec == [id |-> nextId, alert |-> a, state |-> st, resType |-> rt,
                matches |-> ms, resIds |-> {}, createdAt |-> now]
        Insert(r) == /\ table' = table \cup {r}
                     /\ history' = history \cup {[rec |-> r, seen |-> rows]}
                     /\ nextId' = nextId + 1
    IN /\ nextId <= MaxRecords
       /\ \/ rows = {} /\ Insert(rec)
          \/ \E latest \in LatestOf(rows) : Insert(CustomizeCreate(rec, latest))
       /\ UNCHANGED now

Tick ==
    /\ now < MaxTime
    /\ now' = now + 1
    /\ UNCHANGED <<table, nextId, history>>

\* DeleteRecordsOfThirtyDaysAgo, run periodically: fetch the rows with
\* created_at <= now - 30 days, delete them one by one; a failed delete
\* (or a failed fetch: all of them) is only logged.
DeleteRecordsOfThirtyDaysAgo ==
    LET expired == {r \in table : r.createdAt + ExpireTicks <= now}
    IN /\ \E failed \in SUBSET expired : table' = table \ (expired \ failed)
       /\ UNCHANGED <<now, nextId, history>>

Next ==
    \/ \E a \in Alerts, st \in States, rt \in ResTypes, ms \in SUBSET Matches :
          CreateRecord(a, st, rt, ms)
    \/ Tick
    \/ DeleteRecordsOfThirtyDaysAgo

Spec == Init /\ [][Next]_vars

-----------------------------------------------------------------------------
(* Properties *)

\* An OK record written when every newest record of its alert was alerting
\* lists only resources that one of those alerting records reported: the
\* recovery record (CustomizeCreate + unionEvalMatch) never names a
\* resource that was not alerting, even when the newest records tie on
\* created_at.
RecoveryNamesOnlyAlertingResources ==
    \A h \in history :
        LET latest == LatestOf(h.seen)
        IN (h.rec.state = OK /\ latest # {} /\ \A l \in latest : l.state = ALERTING)
              => \E l \in latest : Names(h.rec.matches) \subseteq Names(l.matches)

\* Every record created after an earlier one of its alert lists in res_ids
\* exactly the vm_id (agent, guest) or host_id (host) tags of the matches
\* it keeps, so the ResId filter of ListItemFilter finds the record by
\* exactly the resources it reports.
ResIdsFollowKeptMatches ==
    \A h \in history :
        h.seen # {} => h.rec.resIds = TaggedIds(h.rec.matches, h.rec.resType)

\* The two views of what is alerting now agree: for every state of the
\* alert, the record GetPropertyTotalAlert counts for an alerting alert
\* (getNowAlertingRecord's First() of the newest alerting record) is one of
\* the records the alert list shows with the Alerting filter
\* (ListItemFilter joined to getAlertingRecordQuery's max_created_at), and
\* an alerting alert the list shows is counted, whichever of tied records
\* each query returns.
AlertingViewsAgree ==
    \A info \in [Alerts -> AlertInfo] :
        LET listed == ListAlerting(info, "")
        IN \A pick \in getNowAlertingRecord(info, "") :
              \A a \in DOMAIN pick :
                 /\ pick[a] \subseteq listed
                 /\ (\E r \in listed : r.alert = a) => pick[a] # {}
=============================================================================

--------------------------- MODULE SessionManager ---------------------------
(***************************************************************************)
(* The web-console session manager of pkg/webconsole/session/session.go:   *)
(* a sync.Map from session id to *SSession, used by concurrent HTTP        *)
(* handlers.  Each goroutine of Procs runs one method at a time; a method  *)
(* is split into the steps between which another goroutine can act: every *)
(* sync.Map call is atomic, a plain field read or write of an SSession is  *)
(* a step of its own, and nothing else synchronises.                       *)
(*                                                                         *)
(* An SSession is a reference 1..MaxSessions into sess (pointer identity); *)
(* 0 is the absent entry.  Access tokens encrypt the id with the process   *)
(* key, so a token stands for the id it decrypts to.  Time is the counter  *)
(* now, advanced by Tick; Never is the zero time.Time.                     *)
(***************************************************************************)
EXTENDS Integers, FiniteSets

CONSTANTS
    Procs,                 \* goroutines calling the manager
    Ids,                   \* session ids (ISessionData.GetId)
    Protocols,             \* protocols a session's command may report
    SPICE, WS,             \* the two protocols Get treats specially
    KeepWebsocketSession,  \* o.Options.KeepWebsocketSession
    AccessInterval,        \* AccessInterval, in ticks
    MaxTime,               \* bound on the clock
    MaxSessions            \* bound on SSession allocations

ASSUME /\ SPICE \in Protocols /\ WS \in Protocols
       /\ KeepWebsocketSession \in BOOLEAN
       /\ AccessInterval \in Nat \ {0} /\ MaxTime \in Nat /\ MaxSessions \in Nat

Never == -1
Refs == 1..MaxSessions

VARIABLES
    store,    \* the sync.Map: id -> session reference, 0 when absent
    sess,     \* the SSession objects: [id, protocol, accessedAt, hook, recorder, started]
    nextRef,  \* the next SSession to allocate
    now,      \* the clock
    pc,       \* the step each goroutine is at
    loc,      \* each goroutine's locals: [id, proto, ref]
    notified, \* sessions whose duplicate hook Save has called
    latest,   \* history: the session stored last under each id
    closing,  \* history: sessions on which Close has been called
    closed    \* history: sessions whose Close has returned

vars == <<store, sess, nextRef, now, pc, loc, notified, latest, closing, closed>>

Allocated == 1..(nextRef - 1)

\* The protocols whose sessions Get admits at most once per AccessInterval
\* (session.go:94-95).
Gated(r) == /\ sess[r].protocol # SPICE
            /\ ~(sess[r].protocol = WS /\ KeepWebsocketSession)

Init ==
    /\ store = [i \in Ids |-> 0]
    /\ sess = [r \in Refs |-> [id |-> CHOOSE i \in Ids : TRUE, protocol |-> SPICE,
                               accessedAt |-> Never, hook |-> FALSE,
                               recorder |-> FALSE, started |-> 0]]
    /\ nextRef = 1
    /\ now = 0
    /\ pc = [p \in Procs |-> "idle"]
    /\ loc = [p \in Procs |-> [id |-> CHOOSE i \in Ids : TRUE, proto |-> SPICE, ref |-> 0]]
    /\ notified = {}
    /\ latest = [i \in Ids |-> 0]
    /\ closing = {}
    /\ closed = {}

Tick ==
    /\ now < MaxTime
    /\ now' = now + 1
    /\ UNCHANGED <<store, sess, nextRef, pc, loc, notified, latest, closing, closed>>

SetPc(p, s) == pc' = [pc EXCEPT ![p] = s]
Reserved == Cardinality({p \in Procs : pc[p] = "save_store"})

(***************************************************************************)
(* Save (session.go:60-80).  Step 1: Load the id and run the old session's *)
(* duplicate hook.  Step 2: build the SSession and Store it.  A Save only   *)
(* starts while an SSession is left to allocate for it.                    *)
(***************************************************************************)
SaveLoad(p, id, proto) ==
    /\ pc[p] = "idle"
    /\ nextRef + Reserved <= MaxSessions
    /\ LET old == store[id]
       IN  notified' = IF old # 0 /\ sess[old].hook THEN notified \cup {old} ELSE notified
    /\ loc' = [loc EXCEPT ![p] = [id |-> id, proto |-> proto, ref |-> 0]]
    /\ SetPc(p, "save_store")
    /\ UNCHANGED <<store, sess, nextRef, now, latest, closing, closed>>

SaveStore(p) ==
    /\ pc[p] = "save_store"
    /\ LET r == nextRef
           id == loc[p].id
       IN  /\ sess' = [sess EXCEPT ![r] = [id |-> id, protocol |-> loc[p].proto,
                                           accessedAt |-> Never, hook |-> FALSE,
                                           recorder |-> FALSE, started |-> 0]]
           /\ nextRef' = r + 1
           /\ store' = [store EXCEPT ![id] = r]
           /\ latest' = [latest EXCEPT ![id] = r]
    /\ SetPc(p, "idle")
    /\ UNCHANGED <<now, loc, notified, closing, closed>>

(***************************************************************************)
(* Get (session.go:82-102), for a token that decrypts to id (a token that  *)
(* does not decrypt, or an id not in the map, returns nil without a state  *)
(* change).  Step 1: Load.  Step 2: the AccessInterval check on the        *)
(* session's AccessedAt.  Step 3: AccessedAt = now, and the session is     *)
(* handed out.                                                             *)
(***************************************************************************)
\* A token that does not decrypt (session.go:83-87): nil, nothing changes.
GetBadToken(p) ==
    /\ pc[p] = "idle"
    /\ UNCHANGED vars

GetLoad(p, id) ==
    /\ pc[p] = "idle"
    /\ store[id] # 0
    /\ loc' = [loc EXCEPT ![p].ref = store[id]]
    /\ SetPc(p, "get_check")
    /\ UNCHANGED <<store, sess, nextRef, now, notified, latest, closing, closed>>

GetCheck(p) ==
    /\ pc[p] = "get_check"
    /\ LET r == loc[p].ref
           refused == /\ Gated(r)
                      /\ sess[r].accessedAt # Never
                      /\ now - sess[r].accessedAt < AccessInterval
       IN  SetPc(p, IF refused THEN "idle" ELSE "get_touch")
    /\ UNCHANGED <<store, sess, nextRef, now, loc, notified, latest, closing, closed>>

\* Mutant of GetTouch: the time until which the session stays locked is
\* stored instead of the access time.
GetTouchFutureStamp(p) ==
    /\ pc[p] = "get_touch"
    /\ sess' = [sess EXCEPT ![loc[p].ref].accessedAt = now + AccessInterval]
    /\ SetPc(p, "idle")
    /\ UNCHANGED <<store, nextRef, now, loc, notified, latest, closing, closed>>

GetTouch(p) ==
    /\ pc[p] = "get_touch"
    /\ sess' = [sess EXCEPT ![loc[p].ref].accessedAt = now]
    /\ SetPc(p, "idle")
    /\ UNCHANGED <<store, nextRef, now, loc, notified, latest, closing, closed>>

(***************************************************************************)
(* SSession.Close (session.go:205-215), called once by the handler that    *)
(* owns the session.  Step 1: Cleanup (an error is only logged).  Step 2:  *)
(* Load the id and compare with this session (reflect.DeepEqual of two     *)
(* *SSession: distinct sessions differ in AccessToken, which carries a     *)
(* random IV, so this is pointer identity).  Step 3: Delete the id.        *)
(***************************************************************************)
CloseCleanup(p, r) ==
    /\ pc[p] = "idle"
    /\ r \in Allocated \ closing
    /\ closing' = closing \cup {r}
    /\ loc' = [loc EXCEPT ![p].ref = r]
    /\ SetPc(p, "close_load")
    /\ UNCHANGED <<store, sess, nextRef, now, notified, latest, closed>>

\* Mutant of CloseLoad: the map is looked up by the access token, a key
\* it never holds, so the session is never found.
CloseLoadByToken(p) ==
    /\ pc[p] = "close_load"
    /\ closed' = closed \cup {loc[p].ref}
    /\ SetPc(p, "idle")
    /\ UNCHANGED <<store, sess, nextRef, now, loc, notified, latest, closing>>

CloseLoad(p) ==
    /\ pc[p] = "close_load"
    /\ LET r == loc[p].ref IN
         IF store[sess[r].id] = r
         THEN /\ SetPc(p, "close_delete")
              /\ UNCHANGED closed
         ELSE /\ SetPc(p, "idle")
              /\ closed' = closed \cup {r}
    /\ UNCHANGED <<store, sess, nextRef, now, loc, notified, latest, closing>>

CloseDelete(p) ==
    /\ pc[p] = "close_delete"
    /\ store' = [store EXCEPT ![sess[loc[p].ref].id] = 0]
    /\ closed' = closed \cup {loc[p].ref}
    /\ SetPc(p, "idle")
    /\ UNCHANGED <<sess, nextRef, now, loc, notified, latest, closing>>

\* RegisterDuplicateHook (session.go:217-219).
RegisterDuplicateHook(p, r) ==
    /\ pc[p] = "idle"
    /\ r \in Allocated
    /\ ~sess[r].hook
    /\ sess' = [sess EXCEPT ![r].hook = TRUE]
    /\ UNCHANGED <<store, nextRef, now, pc, loc, notified, latest, closing, closed>>

(***************************************************************************)
(* GetRecorder (session.go:221-227).  Step 1: the nil check (a session     *)
(* that has its recorder returns it unchanged).  Step 2: create the        *)
(* recorder, store it in the field and start its goroutine.                *)
(***************************************************************************)
GetRecorderCheck(p, r) ==
    /\ pc[p] = "idle"
    /\ r \in Allocated
    /\ ~sess[r].recorder
    /\ loc' = [loc EXCEPT ![p].ref = r]
    /\ SetPc(p, "rec_create")
    /\ UNCHANGED <<store, sess, nextRef, now, notified, latest, closing, closed>>

GetRecorderCreate(p) ==
    /\ pc[p] = "rec_create"
    /\ sess' = [sess EXCEPT ![loc[p].ref].recorder = TRUE,
                            ![loc[p].ref].started = @ + 1]
    /\ SetPc(p, "idle")
    /\ UNCHANGED <<store, nextRef, now, loc, notified, latest, closing, closed>>

Next ==
    \/ Tick
    \/ \E p \in Procs :
         \/ \E id \in Ids, proto \in Protocols : SaveLoad(p, id, proto)
         \/ SaveStore(p)
         \/ GetBadToken(p)
         \/ \E id \in Ids : GetLoad(p, id)
         \/ GetCheck(p)
         \/ GetTouch(p)
         \/ \E r \in Refs : CloseCleanup(p, r)
         \/ CloseLoad(p)
         \/ CloseDelete(p)
         \/ \E r \in Refs : RegisterDuplicateHook(p, r)
         \/ \E r \in Refs : GetRecorderCheck(p, r)
         \/ GetRecorderCreate(p)

Spec == Init /\ [][Next]_vars

-----------------------------------------------------------------------------
(* Properties *)

TypeOK ==
    /\ store \in [Ids -> 0..MaxSessions]
    /\ nextRef \in 1..(MaxSessions + 1)
    /\ now \in 0..MaxTime
    /\ \A r \in Allocated :
          /\ sess[r].id \in Ids /\ sess[r].protocol \in Protocols
          /\ sess[r].accessedAt \in {Never} \cup 0..now
          /\ sess[r].started \in Nat
    /\ pc \in [Procs -> {"idle", "save_store", "get_check", "get_touch",
                         "close_load", "close_delete", "rec_create"}]
    /\ closed \subseteq closing /\ closing \subseteq Allocated

\* Once Close has returned, the session is gone from the map for good: no
\* later Get can hand it out again, whatever Saves and Closes of the same
\* id ran concurrently (the Load/DeepEqual/Delete sequence of Close).
ClosedSessionUnreachable ==
    \A r \in closed : store[sess[r].id] # r

\* Close removes only its own session (the DeepEqual check before
\* Manager.Delete): the session a Save stored last for an id stays in the
\* map until that session itself is closed.
LatestSessionRetained ==
    \A id \in Ids : latest[id] # 0 /\ store[id] = 0 => latest[id] \in closing
=============================================================================

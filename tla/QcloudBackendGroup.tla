-------------------------- MODULE QcloudBackendGroup --------------------------
(***************************************************************************)
(* Backend servers of a Tencent Cloud listener in the qcloud load-balancer *)
(* driver (cloudmux pkg/multicloud/qcloud/loadbalancer_backendgroup.go and *)
(* loadbalancer_backend.go).  Tencent has no backend groups: the driver    *)
(* shows the listener's own targets as one group and the targets of each   *)
(* forwarding rule (domain + url) as another.  AddBackendServer registers  *)
(* a target, waits for the task, then looks the new backend up among the   *)
(* group's backends by the suffix "<instance>-<port>" of its id.  A        *)
(* forwarding rule shows its group, and its Delete polls the listener      *)
(* until the rule is gone (loadbalancer_listenerrule.go).                  *)
(*                                                                         *)
(* DescribeTargets answers [targets, rules]: the listener's targets and,   *)
(* per rule, [domain, url, targets]; a target is [inst, port, weight].     *)
(* An id is the sequence of its parts; the parts (instance ids of one      *)
(* fixed length, ports, separators) are atomic, so a suffix of parts is a  *)
(* suffix of characters.  Ports and weights are their decimal strings, as  *)
(* strconv.Itoa and %d write them.                                         *)
(***************************************************************************)
EXTENDS Integers, Sequences, SequencesExt, CloudWait

\* The listener's own group has no domain; a rule's group is its domain
\* and url.
Group(listener, domain, path) == [listener |-> listener, domain |-> domain, path |-> path]

\* SLBBackendGroup.GetId.
GroupId(g) ==
    IF g.domain = "" THEN <<g.listener>> ELSE <<g.listener, ":", g.domain, g.path>>

\* SLBBackend.GetId, for a backend shown in group g.
BackendId(b, g) ==
    GroupId(g) \o <<"/", b.inst, "-", b.port>>
               \o (IF b.domain = "" THEN <<>> ELSE <<":", b.domain, b.url>>)

\* SRegion.GetBackends: the listener's targets, then each rule's targets
\* tagged with the rule's domain and url (a listener's target unmarshals
\* with Domain and Url empty).
Tagged(t, domain, url) ==
    [inst |-> t.inst, port |-> t.port, weight |-> t.weight, domain |-> domain, url |-> url]

GetBackends(answer) ==
    LET own == [i \in DOMAIN answer.targets |-> Tagged(answer.targets[i], "", "")]
        ofRule(r) == [i \in DOMAIN r.targets |-> Tagged(r.targets[i], r.domain, r.url)]
    IN own \o FlattenSeq([j \in DOMAIN answer.rules |-> ofRule(answer.rules[j])])

\* Mutant of GroupBackends: only the domain is compared.
GroupBackendsDomainOnly(answer, g) ==
    SelectSeq(GetBackends(answer), LAMBDA b : b.domain = g.domain)

\* SLBBackendGroup.GetBackends: the backends whose domain and url are the
\* group's.
GroupBackends(answer, g) ==
    SelectSeq(GetBackends(answer), LAMBDA b : b.domain = g.domain /\ b.url = g.path)

\* appLBBackendServer("RegisterTargets", ...): the target is added to the
\* listener (no domain) or to the rule with the group's domain and url.
RegisterTargets(answer, g, t) ==
    IF g.domain = ""
    THEN [answer EXCEPT !.targets = Append(@, t)]
    ELSE [answer EXCEPT !.rules = [j \in DOMAIN @ |->
            IF @[j].domain = g.domain /\ @[j].url = g.path
            THEN [@[j] EXCEPT !.targets = Append(@, t)] ELSE @[j]]]

\* Mutant of AddBackendServer: the suffix is built with the weight in
\* place of the port.
AddBackendServerByWeight(answer, g, inst, port, weight) ==
    LET after == RegisterTargets(answer, g, [inst |-> inst, port |-> port, weight |-> weight])
        found == SelectSeq(GroupBackends(after, g),
                           LAMBDA b : IsSuffix(<<inst, "-", weight>>, BackendId(b, g)))
    IN IF found = <<>> THEN [err |-> "ErrNotFound"] ELSE [err |-> "nil", backend |-> Head(found)]

\* AddBackendServer: RegisterTargets, WaitLBTaskSuccess (taken as
\* succeeded), GetBackends, and the first backend whose id ends with
\* "<ExternalId>-<Port>", ErrNotFound if none.
AddBackendServer(answer, g, inst, port, weight) ==
    LET after == RegisterTargets(answer, g, [inst |-> inst, port |-> port, weight |-> weight])
        found == SelectSeq(GroupBackends(after, g),
                           LAMBDA b : IsSuffix(<<inst, "-", port>>, BackendId(b, g)))
    IN IF found = <<>> THEN [err |-> "ErrNotFound"] ELSE [err |-> "nil", backend |-> Head(found)]

-----------------------------------------------------------------------------
(* Forwarding rules (loadbalancer_listenerrule.go).  A rule is [id, domain, *)
(* url]; id is its LocationId.  What the listener's Refresh answers at a   *)
(* tick is [err, rules].                                                   *)

\* SLBListenerRule.GetBackendGroup (and GetBackendGroupId, its GetId): the
\* group of the rule's domain and url.
GetBackendGroup(listener, rule) == Group(listener, rule.domain, rule.url)

\* DeleteLBListenerRule / DeleteLBListenerRules: an empty id is refused
\* before any request; otherwise the DeleteRule request, which may fail.
DeleteLBListenerRule(lbid, listenerId, ruleId, reqOk) ==
    IF "" \in {lbid, listenerId, ruleId} \/ ~reqOk THEN "error" ELSE "requested"

\* Mutant of Refresh: the search returns ErrNotFound as soon as the first
\* rule is not this one.
RefreshFirstOnly(answer, id) ==
    CASE answer.err # "none"                           -> answer.err
      [] answer.rules # <<>> /\ answer.rules[1].id = id -> "ok"
      [] OTHER                                         -> "notfound"

\* SLBListenerRule.Refresh: the listener's Refresh, whose error ("error",
\* or "notfound" for a deleted listener) it returns as is, then the rule
\* with this LocationId among its rules, ErrNotFound if none.
Refresh(answer, id) ==
    CASE answer.err # "none"                                  -> answer.err
      [] \E i \in DOMAIN answer.rules : answer.rules[i].id = id -> "ok"
      [] OTHER                                                -> "notfound"

\* SLBListenerRule.Delete: DeleteLBListenerRule, then WaitDeleted on the
\* rule against the listener's answers over time.
Delete(lbid, listenerId, rule, reqOk, answers, interval, timeout) ==
    IF DeleteLBListenerRule(lbid, listenerId, rule.id, reqOk) = "error"
    THEN [res |-> "error", polls |-> <<>>, synced |-> <<>>]
    ELSE WaitDeletedWithDelay(answers, [t \in DOMAIN answers |-> Refresh(answers[t], rule.id)],
                              0, interval, timeout)
=============================================================================

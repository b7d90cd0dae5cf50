--------------------------- MODULE HcsoBackendGroup ---------------------------
(***************************************************************************)
(* SElbBackendGroup.Delete of the HCSO load-balancer driver (cloudmux      *)
(* pkg/multicloud/hcso/loadbalancer_backendgroup.go).  It deletes the      *)
(* group's health check, lists the group's members and removes those whose *)
(* admin state is down (the "dirty" members GetLoadBalancerBackends hides  *)
(* from the platform), deletes the group, then waits until Refresh no      *)
(* longer finds it.  The first failure ends it with that error.            *)
(*                                                                         *)
(* The provider is modelled by what it answers (its request helpers are    *)
(* not in this tree): d.hcOk, d.listOk and d.groupOk say whether those     *)
(* requests succeed, d.removeOk[id] whether the removal of member id does, *)
(* and d.refresh[t] what GetLoadBalancerBackendGroup answers at tick t.    *)
(* A member is [id, up].  The result is [res, sent]: sent lists the        *)
(* requests made, in order, each as [req, ok].                             *)
(***************************************************************************)
EXTENDS Integers, Sequences, SequencesExt, CloudWait

\* GetLoadBalancerBackends: the listed members whose admin state is up,
\* the only ones the platform is shown.
GetLoadBalancerBackends(members) == SelectSeq(members, LAMBDA m : m.up)

\* getLoadBalancerAdminStateDownBackends: the listed members that are down.
AdminStateDownBackends(members) == SelectSeq(members, LAMBDA m : ~m.up)

\* RemoveBackendServer, i.e. RemoveLoadBalancerBackend: SetBackendGroupId
\* then the delete of the member; either failing fails the removal.
RemoveLoadBalancerBackend(id, removeOk) == [req |-> <<"remove", id>>, ok |-> removeOk[id]]

\* Mutant of RemoveDownBackends: a failed removal is skipped and the loop
\* goes on.
RemoveDownBackendsContinue(down, removeOk) ==
    [i \in DOMAIN down |-> RemoveLoadBalancerBackend(down[i].id, removeOk)]

\* The loop over the down members: RemoveBackendServer
\* (RemoveLoadBalancerBackend) for each, stopping at the first error.
RemoveDownBackends(down, removeOk) ==
    LET firstFail == SelectInSeq(down, LAMBDA m : ~removeOk[m.id])
        upTo == IF firstFail = 0 THEN Len(down) ELSE firstFail
    IN [i \in 1..upTo |-> RemoveLoadBalancerBackend(down[i].id, removeOk)]

\* SElbBackendGroup.Delete (named apart from the qcloud rule's Delete).
\* The list and each removal stand for SetBackendGroupId and the request.
ElbBackendGroupDelete(d) ==
    LET hc == IF d.hcId THEN <<[req |-> <<"healthcheck">>, ok |-> d.hcOk]>> ELSE <<>>
        list == <<[req |-> <<"list">>, ok |-> d.listOk]>>
        removes == RemoveDownBackends(AdminStateDownBackends(d.members), d.removeOk)
        group == <<[req |-> <<"group">>, ok |-> d.groupOk]>>
        failed(s) == \E i \in DOMAIN s : ~s[i].ok
        wait == WaitDeletedWithDelay(d.refresh, d.refresh, 0, d.interval, d.timeout)
    IN CASE failed(hc)      -> [res |-> "error", sent |-> hc]
         [] failed(list)    -> [res |-> "error", sent |-> hc \o list]
         [] failed(removes) -> [res |-> "error", sent |-> hc \o list \o removes]
         [] failed(group)   -> [res |-> "error", sent |-> hc \o list \o removes \o group]
         [] OTHER           -> [res |-> wait.res, sent |-> hc \o list \o removes \o group]
=============================================================================

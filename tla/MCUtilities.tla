------------------------------ MODULE MCUtilities ------------------------------
(***************************************************************************)
(* The pure helpers of the project run on bounded inputs: each step is one *)
(* call, last records its function, input and result, and the invariants   *)
(* compare the result with a reference definition.                         *)
(*   - ValidateListenerRuleConditions (ListenerRuleConditions);            *)
(*   - the main NIC and the route lists of a guest's deploy, and the       *)
(*     netmask conversions (NetUtils);                                     *)
(*   - WaitStatusWithDelay (CloudWait);                                    *)
(*   - the HCSO health-check HTTP code conversions (HcsoHealthCheck);      *)
(*   - the qcloud AddBackendServer lookup (QcloudBackendGroup);            *)
(*   - FormatMac, MacEqual and TestTcpPort (NetUtils);                     *)
(*   - the web console's connect parameters (ConnectParams).               *)
(***************************************************************************)
EXTENDS ListenerRuleConditions, NetUtils, CloudWait, HcsoHealthCheck,
        QcloudBackendGroup, ConnectParams, HcsoBackendGroup, AliyunLbEndpoints, FiniteSets

-----------------------------------------------------------------------------
(* Listener rule conditions *)

\* Condition shapes: a well-formed condition of each kind with one value,
\* some with none or three, and one of each way a condition can be wrong.
Cond(f, vs) == [field |-> f, config |-> TRUE, name |-> "string", values |-> vs]
Good == {Cond(k, <<IF k = "query-string" THEN "dict" ELSE "string">>) : k \in Kinds}
Empty == {Cond(k, <<>>) : k \in Kinds}
Bad == {NotDict, Cond(Missing, <<>>), Cond("other", <<>>),
        [Cond("http-header", <<>>) EXCEPT !.config = FALSE],
        [Cond("http-header", <<>>) EXCEPT !.name = Missing],
        [Cond("http-header", <<>>) EXCEPT !.name = "other"],
        Cond("path-pattern", Missing), Cond("source-ip", NotArray),
        Cond("path-pattern", <<"dict">>), Cond("query-string", <<"string">>),
        Cond("query-string", <<"nokey">>), Cond("query-string", <<"novalue">>),
        Cond("query-string", <<"other">>)}
Three == {Cond("http-header", <<"string", "string", "string">>),
          Cond("query-string", <<"dict", "dict", "dict">>)}
Shapes == Good \cup Empty \cup Bad \cup Three

\* Every string of up to two conditions, up to three of the well-formed
\* ones, and the longest sequences: five and six empty conditions.
Many(n) == [i \in 1..n |-> Cond(IF i <= 3 THEN "http-header"
                               ELSE IF i = 4 THEN "path-pattern"
                               ELSE IF i = 5 THEN "host-header" ELSE "source-ip", <<>>)]
MCInputs == {NotJSON, NotArray}
            \cup UNION {[1..n -> Shapes] : n \in 0..2}
            \cup [1..3 -> Good \cup Three]
            \cup {Many(5), Many(6)}

-----------------------------------------------------------------------------
(* NICs of a guest *)

Net(p, l) == [v6 |-> FALSE, prefix |-> p, len |-> l]
Net6(p, l) == [v6 |-> TRUE, prefix |-> p, len |-> l]
MCPrivateRanges == <<Net("10.0.0.0", 8), Net("172.16.0.0", 12), Net("192.168.0.0", 16)>>
MCMetaRoute4 == Net("169.254.169.254", 32)
MCMetaRoutes6 == <<Net6("fd00:ec2::254", 128), Net6("fe80::a9fe:a9fe", 128)>>

\* NIC routes: none, one, the same twice, one the metadata route already
\* covers, one that overlaps a private range, a v6 one, one that does not
\* parse.
R1 == [net |-> Net("10.1.0.0", 16), gw |-> "gw1"]
RouteLists == {<<>>, <<R1>>, <<R1, R1>>, <<[net |-> MCMetaRoute4, gw |-> "gw1"]>>,
               <<[net |-> Net("10.0.0.0", 8), gw |-> "gw2"]>>,
               <<[net |-> Net6("fd00::", 64), gw |-> "gw1"]>>, <<[net |-> BadNet, gw |-> "gw1"]>>}
Nics == [ip : IPs \cup {BadIp}, ip6 : {NoIp, "v6a"}, gateway : {NoIp, "gw1"},
         routes : RouteLists]
\* Guests with one or two NICs.
MCNicLists == UNION {[1..n -> Nics] : n \in 1..2}

\* The deploy: the main NIC, then AddNicRoutes NIC by NIC.
DeployRoutes(nics) ==
    LET m == GetMainNicFromDeployApi(nics)
        mainIp == IF m = 0 THEN NoIp ELSE nics[m].ip
        mainIp6 == IF m = 0 THEN NoIp ELSE nics[m].ip6
    IN FoldLeft(LAMBDA r, n : AddNicRoutes(r, n, mainIp, mainIp6, Len(nics)),
                <<<<>>, <<>>>>, nics)

\* The reference choice of the main NIC: a public NIC with a gateway, else
\* any NIC with a gateway, else a public NIC, else any, the first of its
\* kind; none when an address it has to look at does not parse.
FirstOf(nics, P(_)) ==
    IF \E i \in DOMAIN nics : P(nics[i]) THEN Min({i \in DOMAIN nics : P(nics[i])}) ELSE 0
MainNicReference(nics) ==
    LET hasGw(n) == n.gateway # NoIp
        pubGw(n) == hasGw(n) /\ n.ip \in IPs \ Private
        pub(n) == n.ip \in IPs \ Private
        any(n) == TRUE
    IN CASE \E i \in DOMAIN nics : hasGw(nics[i]) /\ nics[i].ip = BadIp -> 0
         [] FirstOf(nics, pubGw) # 0 -> FirstOf(nics, pubGw)
         [] FirstOf(nics, hasGw) # 0 -> FirstOf(nics, hasGw)
         [] \E i \in DOMAIN nics : nics[i].ip = BadIp -> 0
         [] FirstOf(nics, pub) # 0 -> FirstOf(nics, pub)
         [] OTHER -> FirstOf(nics, any)

-----------------------------------------------------------------------------
(* Netmasks *)

\* The four bytes of the mask with n leading ones.
PrefixBytes(n) ==
    [i \in 1..4 |-> 256 - 2^(8 - IF n >= 8 * i THEN 8 ELSE IF n <= 8 * (i - 1) THEN 0
                                                         ELSE n - 8 * (i - 1))]

-----------------------------------------------------------------------------
(* Provider timelines *)

Ticks == 0..6
Statuses == {"ready", "busy"}
\* Refresh answers: all fine, or one error at one tick.
Refreshes == {[t \in Ticks |-> "ok"]}
             \cup {[t \in Ticks |-> IF t = e THEN "error" ELSE "ok"] : e \in Ticks}
WaitInputs == [status : [Ticks -> Statuses], refresh : Refreshes, delay : 0..2,
               interval : 1..2, timeout : 1..4]

-----------------------------------------------------------------------------
(* Health-check HTTP codes *)

\* The region's code lists (one to three classes, with and without outer
\* spaces) and the provider's (a code, a range, a list, ranges whose ends
\* both carry "00").
OnecloudCodes == {Str("http_2xx"), Str("http_2xx,http_3xx"), Str(" http_4xx,http_5xx "),
                  Str("http_1xx,http_2xx,http_3xx")}
HuaweiCodes == {Str("200"), Str("404"), Str("200-300"), Str("200,404"), Str("200-204"),
                Str(" 301 "), Str("100-200,500")}
Digits == {"0", "1", "2", "3", "4", "5", "6", "7", "8", "9"}

-----------------------------------------------------------------------------
(* qcloud backends *)

\* A listener with targets of its own and rules on two urls of one domain.
QTarget(i, p, w) == [inst |-> i, port |-> p, weight |-> w]
QRule(u, ts) == [domain |-> "a.com", url |-> u, targets |-> ts]
QAnswers == {[targets |-> ts, rules |-> rs] :
               ts \in {<<>>, <<QTarget("i1", "80", "10")>>},
               rs \in {<<>>, <<QRule("/x", <<>>)>>,
                       <<QRule("/x", <<QTarget("i2", "80", "10")>>), QRule("/y", <<>>)>>}}
QGroups == {Group("lsn", "", ""), Group("lsn", "a.com", "/x")}
QAdds == [answer : QAnswers, group : QGroups, inst : {"i1", "i2"}, port : {"80", "8080"},
          weight : {"10", "80"}]

\* A rule deleted while another rule of the listener stays (listed before
\* it): the rule is gone from tick "gone" on (never, at 5), and the
\* listener's Refresh fails at tick "fail" (never, at 5), and answers
\* ErrNotFound from tick "lgone" on, the listener deleted (never, at 5).
QRuleX == [id |-> "r1", domain |-> "a.com", url |-> "/x"]
QRuleY == [id |-> "r2", domain |-> "a.com", url |-> "/y"]
QTimeline(gone, fail, lgone) ==
    [t \in Ticks |-> [err |-> CASE t = fail -> "error" [] t >= lgone -> "notfound" [] OTHER -> "none",
                      rules |-> IF t < gone THEN <<QRuleY, QRuleX>> ELSE <<QRuleY>>]]
QDeletes == [ruleId : {"r1", ""}, reqOk : BOOLEAN, gone : 0..5, fail : 0..5,
             lgone : {1, 5}, interval : 1..2, timeout : 1..4]

-----------------------------------------------------------------------------
(* HCSO backend-group deletion *)

\* Up to three members, each up or down, and every outcome of the
\* requests Delete makes; the group is gone from tick 0 or 2, never, or
\* its Refresh fails at tick 1 (WaitDeleted's 2s and 30s scaled to 1 and 3).
HMembers == UNION {{[i \in 1..n |-> [id |-> i, up |-> ups[i]]] : ups \in [1..n -> BOOLEAN]} : n \in 0..3}
HTimeline(gone, fail) ==
    [t \in Ticks |-> CASE t = fail -> "error" [] t >= gone -> "notfound" [] OTHER -> "ok"]
HDeletes == [hcId : BOOLEAN, hcOk : BOOLEAN, listOk : BOOLEAN, members : HMembers,
             removeOk : [1..3 -> BOOLEAN], groupOk : BOOLEAN,
             refresh : {HTimeline(0, 9), HTimeline(2, 9), HTimeline(9, 1), HTimeline(9, 9)},
             interval : {1}, timeout : {3}]

-----------------------------------------------------------------------------
(* Aliyun load-balancer endpoints *)

\* Up to four events of one caller: a regional call for r1 or r2 meeting
\* each DescribeRegions answer, a central API, a call without RegionId,
\* or the provider opening a region; the provider first lists r1, r2 or
\* both.
LbEvents == [api : {"Other"}, region : {"r1", "r2"}, answer : {"ok", "reqerr", "badjson"}]
            \cup {[api |-> "DescribeRegions", region |-> "r1", answer |-> "ok"],
                  [api |-> "Other", region |-> NoRegion, answer |-> "ok"]}
            \cup [open : {"r1", "r2"}]
LbListings == {{"r1"}, {"r2"}, {"r1", "r2"}}

\* A sequence of events from the empty cache: [open |-> r] the provider
\* opening region r, or a call [api, region, answer].  The result is the
\* cache and, per call, its out with the fill the cache carries after it.
RECURSIVE LbCalls(_, _, _)
LbCalls(c, listing, events) ==
    IF events = <<>> THEN [cache |-> c, trace |-> <<>>]
    ELSE LET e == Head(events)
         IN IF "open" \in DOMAIN e
            THEN LbCalls(c, listing \cup {e.open}, Tail(events))
            ELSE LET r == lbRequest(c, listing, e.api, e.region, e.answer)
                     rest == LbCalls(r.cache, listing, Tail(events))
                 IN [rest EXCEPT !.trace = <<[out |-> r.out, fill |-> r.cache.fill]>> \o @]

-----------------------------------------------------------------------------
(* MAC strings and TCP probes *)

\* Eleven, twelve or thirteen digits, the first and the twelfth lower,
\* upper or "0", written bare or with ":" or the non-hex letter "G" after
\* every pair.
MacStr(first, twelfth, n, sep) ==
    LET d == [i \in 1..n |-> CASE i = 1 -> first [] i = 12 -> twelfth [] OTHER -> "0"]
    IN FlattenSeq([i \in 1..n |-> <<d[i]>> \o (IF i % 2 = 0 /\ i < n THEN sep ELSE <<>>)])
MacStrs == {MacStr(f, t, n, sep) : f, t \in {"a", "A", "0"}, n \in 11..13,
                                   sep \in {<<>>, <<":">>, <<"G">>}}

\* The hex digits of a string, each as the digit it stands for.
DigitsOf(m) ==
    LET ds == SelectSeq(m, LAMBDA c : c \in HexLower \cup DOMAIN ToLowerHex)
    IN [i \in DOMAIN ds |-> IF ds[i] \in HexLower THEN ds[i] ELSE ToLowerHex[ds[i]]]

\* A port probed with or without a timeout and a try count, against every
\* outcome of three dials.
TcpProbes == [timeoutSecs : {-1, 0, 2}, tries : {-1, 0, 1, 3},
              dial : [1..3 -> {"err", "conn", "nilconn"}]]

-----------------------------------------------------------------------------
(* Web-console connect parameters *)

\* API server paths: "" and every absolute path of up to three segments
\* among "", "api", "v1", "." and "..", and a URL that does not parse.
ApiPaths == {<<"">>} \cup {<<"">> \o s : s \in UNION {[1..n -> {"", "api", "v1", ".", ".."}] : n \in 1..3}}
MCApi == [valid |-> TRUE, schemeHost |-> "https://h", path |-> <<"", "api">>]
ApiServers == [valid : BOOLEAN, schemeHost : {"https://h"}, path : ApiPaths]

\* What the caller and populateParams may already have put in: the keys
\* the code sets and one it does not, with one or two values each.
CallerValues == UNION {[1..n -> {<<"evil">>, <<"x">>}] : n \in 1..2}
CallerParams == UNION {[ks -> CallerValues] :
                        ks \in SUBSET {"access_token", "api_server", "login_error_message",
                                       "referer_whitelist", "other"}}
MCSessions == [token : {"tok"}, protocol : {"vnc"}, needLogin : BOOLEAN, loginErr : BOOLEAN]
Whitelists == {<<>>, <<"a">>, <<"a", "b">>}

\* The location an absolute URL path names (RFC 3986 dot-segment
\* removal): empty and "." segments name nothing, ".." goes up one level
\* and stays at the root.
ResolvePath(segs) ==
    LET step(out, e) == CASE e \in {"", "."}            -> out
                          [] e = ".." /\ out # <<>>     -> Front(out)
                          [] e = ".."                   -> out
                          [] OTHER                      -> Append(out, e)
    IN FoldLeft(step, <<>>, segs)

\* The pairs of an encoded query with this key.
PairsOf(q, k) == SelectSeq(q, LAMBDA pr : pr[1] = k)

-----------------------------------------------------------------------------
VARIABLE last

\* No call in progress.
Idle == [fn |-> "none"]

Init == last = Idle

\* The caller takes the result; the next call may start.
Return ==
    /\ last # Idle
    /\ last' = Idle

\* A request whose "condition" string is in.
Validate(in) ==
    last' = [fn |-> "conditions", in |-> in, out |-> ValidateListenerRuleConditions(in)]

\* A guest's NICs deployed.
Deploy(nics) ==
    last' = [fn |-> "deploy", in |-> nics,
             out |-> [main |-> GetMainNicFromDeployApi(nics), routes |-> DeployRoutes(nics)]]

\* A prefix length written as a dotted mask, read back by PrefixSplit.
MaskRoundTrip(n) ==
    LET dotted == NetBytes2Mask(PrefixBytes(n))
    IN last' = [fn |-> "mask", in |-> n,
                out |-> [len |-> Netmask2Len(dotted),
                         split |-> PrefixSplit([slash |-> "inner", ip |-> "10.0.0.0",
                                                mask |-> [form |-> "dotted", octets |-> dotted]])]]

\* WaitStatusWithDelay for "ready" against a provider timeline.
WaitReady(w) ==
    last' = [fn |-> "wait", in |-> w,
             out |-> WaitStatusWithDelay(w.status, w.refresh, "ready", w.delay, w.interval, w.timeout)]

\* A code list converted to the provider's form and back, or the other way.
HttpCodes(form, c) ==
    last' = [fn |-> "codes", in |-> [form |-> form, codes |-> c],
             out |-> IF form = "onecloud"
                     THEN LET h == ToHuaweiHealthCheckHttpCode(c)
                          IN [there |-> h, back |-> ToOnecloudHealthCheckHttpCode(h)]
                     ELSE LET o == GetHealthCheck("hm", TRUE, [type |-> "HTTP", codes |-> c]).check.httpCode
                          IN [there |-> o, back |-> ToHuaweiHealthCheckHttpCode(o)]]

\* A backend added to a group of a listener.
AddBackend(a) ==
    last' = [fn |-> "qcloud", in |-> a,
             out |-> AddBackendServer(a.answer, a.group, a.inst, a.port, a.weight)]

\* A rule deleted.
DeleteRule(d) ==
    last' = [fn |-> "ruledelete", in |-> d,
             out |-> Delete("lb", "lsn", [QRuleX EXCEPT !.id = d.ruleId], d.reqOk,
                            QTimeline(d.gone, d.fail, d.lgone), d.interval, d.timeout)]

\* The backends shown in the group of a rule.
RuleGroup(answer, rule) ==
    last' = [fn |-> "rulegroup", in |-> [answer |-> answer, rule |-> rule],
             out |-> GroupBackends(answer, GetBackendGroup("lsn", rule))]

\* An HCSO backend group deleted.
DeleteElbGroup(d) ==
    last' = [fn |-> "elbdelete", in |-> d, out |-> ElbBackendGroupDelete(d)]

\* Calls of the Aliyun load-balancer client.
LbSession(listing, events) ==
    last' = [fn |-> "lbrequests", in |-> [listing |-> listing, events |-> events],
             out |-> LbCalls(EmptyCache, listing, events)]

\* Two MAC strings compared.
CompareMacs(m1, m2) ==
    last' = [fn |-> "mac", in |-> <<m1, m2>>,
             out |-> [equal |-> MacEqual(m1, m2), formatted |-> FormatMac(m1)]]

\* A TCP port probed.
ProbePort(p) ==
    last' = [fn |-> "tcp", in |-> p, out |-> TestTcpPort(p.timeoutSecs, p.tries, p.dial)]

\* A console opened against a configured API server.
ConnectTo(api) ==
    last' = [fn |-> "apiserver", in |-> api,
             out |-> GetConnectParams(<<>>, api, [token |-> "tok", protocol |-> "vnc",
                                                 needLogin |-> FALSE, loginErr |-> FALSE], <<>>)]

\* A console opened with what the caller passed.
ConnectWith(params, sess, wl) ==
    last' = [fn |-> "connect", in |-> [params |-> params, sess |-> sess, wl |-> wl],
             out |-> GetConnectParams(params, MCApi, sess, wl)]

Next ==
    \/ /\ last = Idle
       /\ \/ \E in \in MCInputs : Validate(in)
          \/ \E nics \in MCNicLists : Deploy(nics)
          \/ \E n \in 0..32 : MaskRoundTrip(n)
          \/ \E w \in WaitInputs : WaitReady(w)
          \/ \E c \in OnecloudCodes : HttpCodes("onecloud", c)
          \/ \E c \in HuaweiCodes : HttpCodes("huawei", c)
          \/ \E a \in QAdds : AddBackend(a)
          \/ \E d \in QDeletes : DeleteRule(d)
          \/ \E a \in QAnswers, j \in 1..2 : j \in DOMAIN a.rules /\ RuleGroup(a, a.rules[j])
          \/ \E d \in HDeletes : DeleteElbGroup(d)
          \/ \E listing \in LbListings, events \in BoundedSeq(LbEvents, 4) : LbSession(listing, events)
          \/ \E m1, m2 \in MacStrs : CompareMacs(m1, m2)
          \/ \E p \in TcpProbes : ProbePort(p)
          \/ \E api \in ApiServers : ConnectTo(api)
          \/ \E params \in CallerParams, sess \in MCSessions, wl \in Whitelists :
                 ConnectWith(params, sess, wl)
    \/ Return

Spec == Init /\ [][Next]_last

-----------------------------------------------------------------------------
(* Properties *)

\* ValidateListenerRuleConditions accepts a condition string exactly when
\* the rule stated in its comment allows it: the per-kind and "rules"
\* budgets shared by the loop over conditions and the loops over values
\* enforce the limits, and the first malformed condition or value is refused.
VerdictMatchesRule ==
    last.fn = "conditions" => ((last.out = "") <=> ConditionsAllowed(last.in))

\* GetMainNicFromDeployApi picks the first public NIC with a gateway, else
\* the first NIC with a gateway, else the first public NIC, else the first
\* NIC: its two passes and the keep-the-first-public replacement rule.
MainNicPreferred ==
    last.fn = "deploy" => last.out.main = MainNicReference(last.in)

\* The route lists a deploy builds with AddNicRoutes NIC by NIC never hold
\* two routes to the same prefix and length, whatever the NICs' own routes
\* repeat, and the main NIC's metadata route is in the v4 list.
RoutesUnique ==
    last.fn = "deploy" =>
        /\ \A k \in 1..2 : \A i, j \in DOMAIN last.out.routes[k] :
               i # j => << last.out.routes[k][i].prefix, last.out.routes[k][i].len >>
                        # << last.out.routes[k][j].prefix, last.out.routes[k][j].len >>
        /\ last.out.main # 0 =>
               \E i \in DOMAIN last.out.routes[1] :
                   last.out.routes[1][i].prefix = MCMetaRoute4.prefix

\* A prefix length written as a mask by NetBytes2Mask is read back as the
\* same length by Netmask2Len and by PrefixSplit, for all 33 lengths.
MaskLengthRoundTrip ==
    last.fn = "mask" => last.out.len = last.in /\ last.out.split.len = last.in

\* WaitStatusWithDelay never reports a status the resource did not have
\* (nil only on a poll that read "ready"), and cannot miss a status that
\* holds for an interval after the delay and before the deadline.
WaitCatchesSteadyStatus ==
    last.fn = "wait" =>
        LET w == last.in
            r == last.out
            deadline == w.delay + w.timeout
        IN /\ r.res = "nil" => w.status[r.polls[Len(r.polls)]] = "ready"
           /\ (/\ \A t \in w.delay..(deadline - 1) : w.refresh[t] = "ok"
               /\ \E a \in w.delay..(deadline - 1 - w.interval) :
                      \A t \in a..(a + w.interval) : w.status[t] = "ready")
              => r.res = "nil"

\* ToHuaweiHealthCheckHttpCode turns every class of a region code list
\* into the provider's code (no letter is left), and
\* ToOnecloudHealthCheckHttpCode turns it back; a provider list, ranges
\* included, survives the way through the region's form: the cutset trim
\* of "http_", the per-segment trims and the all-occurrence replaces
\* agree.  (Lists with a space after the comma are left out: see the
\* README.)
HttpCodeRoundTrip ==
    last.fn = "codes" =>
        /\ last.out.back = TrimSpace(last.in.codes)
        /\ last.in.form = "onecloud" =>
               \A i \in DOMAIN last.out.there : last.out.there[i] \in Digits \cup {","}

\* AddBackendServer on the listener's own group returns the backend it
\* registered, and in any group it never returns a backend of another
\* instance or port: the suffix lookup over SLBBackend.GetId.
AddedBackendFound ==
    last.fn = "qcloud" =>
        /\ last.out.err = "nil" =>
               last.out.backend.inst = last.in.inst /\ last.out.backend.port = last.in.port
        /\ last.in.group.domain = "" => last.out.err = "nil"

\* The reference result of deleting a rule: the request is sent only with
\* every id set; then the first poll (every interval from 0 while before
\* the timeout) that sees the listener fail, the listener gone or the rule
\* missing decides.
RuleDeleteReference(d) ==
    LET polls == {t \in 0..(d.timeout - 1) : t % d.interval = 0}
        decisive == {t \in polls : t = d.fail \/ t >= d.gone \/ t >= d.lgone}
        first == CHOOSE t \in decisive : \A u \in decisive : t <= u
    IN CASE d.ruleId = "" \/ ~d.reqOk -> "error"
         [] decisive = {}             -> "timeout"
         [] first = d.fail            -> "error"
         [] OTHER                     -> "nil"

\* SLBListenerRule.Delete reports the rule deleted exactly when a poll of
\* WaitDeleted saw the listener without it or saw the listener itself gone
\* (the ErrNotFound of either Refresh), and a failing listener or an empty
\* id is an error, not a deletion: other rules of the listener do not hide
\* the rule.
RuleDeleteTruthful ==
    last.fn = "ruledelete" => last.out.res = RuleDeleteReference(last.in)

\* The group a forwarding rule shows (GetBackendGroup) holds exactly the
\* targets DescribeTargets lists under that rule, tagged with its domain
\* and url, even next to other rules of the same domain.
RuleGroupShowsRuleTargets ==
    last.fn = "rulegroup" =>
        GroupBackends(last.in.answer, GetBackendGroup("lsn", last.in.rule))
          = LET r == last.in.rule IN
            [i \in DOMAIN r.targets |-> Tagged(r.targets[i], r.domain, r.url)]

\* SElbBackendGroup.Delete stops at its first failed request and reports
\* it: no request follows a failure, only members the platform never sees
\* (admin state down) are removed, the group is deleted only once all of
\* them are gone, and success means the health check, every such member
\* and the group were deleted and WaitDeleted saw the group gone.
ElbGroupDeleteStopsAtFirstFailure ==
    last.fn = "elbdelete" =>
        LET d == last.in
            s == last.out.sent
            downIds == {d.members[i].id : i \in {j \in DOMAIN d.members : ~d.members[j].up}}
            removed == {s[i].req[2] : i \in {j \in DOMAIN s : s[j].req[1] = "remove"}}
            asked(r) == \E i \in DOMAIN s : s[i].req = r
        IN /\ \A i \in DOMAIN s : i < Len(s) => s[i].ok
           /\ (\E i \in DOMAIN s : ~s[i].ok) => last.out.res = "error"
           /\ removed \subseteq downIds
           /\ asked(<<"group">>) => removed = downIds
           /\ last.out.res = "nil" =>
                  /\ asked(<<"group">>)
                  /\ d.hcId => asked(<<"healthcheck">>)
                  /\ \E t \in Ticks : d.refresh[t] = "notfound"

MacEqualMatchesDigits ==
    last.fn = "mac" =>
        LET d1 == DigitsOf(last.in[1])
            d2 == DigitsOf(last.in[2])
            f == last.out.formatted
        IN /\ last.out.equal <=> (Len(d1) = 12 /\ d1 = d2)
           /\ Len(d1) = 12 =>
                  /\ Len(f) = 17
                  /\ \A j \in 1..17 : (f[j] = ":") <=> (j % 3 = 0)
                  /\ FormatMac(f) = f

\* TestTcpPort reports success only when its last dial connected, and an
\* error only after at least one dial and at least the tries asked for,
\* with every failed dial's error in the aggregate, in order; every dial
\* gets a positive timeout.  A try count or timeout of zero or less must
\* not turn into a success without a dial.
TcpProbeTruthful ==
    last.fn = "tcp" =>
        LET r == last.out
            d == last.in.dial
        IN /\ r.timeout > 0
           /\ r.dials >= 1
           /\ (r.err = "nil") <=> d[r.dials] = "conn"
           /\ r.err # "nil" => r.dials >= last.in.tries
           /\ r.errs = [i \in 1..Len(r.errs) |-> d[i]]
           /\ \A i \in 1..Len(r.errs) : r.errs[i] # "conn"
           /\ Len(r.errs) = r.dials - (IF r.err = "nil" THEN 1 ELSE 0)

\* The api_server a console is given names the configured server: the
\* same scheme and host, then nothing or "/" and a path that resolves to
\* the configured one, whatever empty, "." and ".." segments the
\* configured path has (the split, filepath.Join and the "/" before the
\* joined path); a URL that does not parse is an error.
ApiServerSameLocation ==
    last.fn = "apiserver" =>
        IF ~last.in.valid THEN last.out.err # "nil"
        ELSE LET v == PairsOf(last.out.out, "api_server")[1][2]
                 tail == Tail(v)
             IN /\ v[1] = last.in.schemeHost
                /\ tail = <<>> \/ tail[1] = "/"
                /\ ResolvePath(SelectSeq(tail, LAMBDA t : t # "/")) = ResolvePath(last.in.path)

\* Whatever the caller and the display info put in, the query carries
\* exactly one access token, the session's, and one api_server, protocol
\* and is_need_login each.  The login error and the referer whitelist
\* carry the code's one value when it sets them (IsNeedLogin failed, a
\* whitelist is configured); otherwise, like every key the code does not
\* set, exactly the caller's values.
ConnectParamsAuthoritative ==
    last.fn = "connect" =>
        LET q == last.out.out
            c == last.in.params
            callerPairs(k) == IF k \in DOMAIN c THEN [i \in DOMAIN c[k] |-> <<k, c[k][i]>>] ELSE <<>>
            setOrCaller(k, set) == IF set THEN Len(PairsOf(q, k)) = 1 ELSE PairsOf(q, k) = callerPairs(k)
        IN /\ PairsOf(q, "access_token") = <<<<"access_token", <<"tok">>>>>>
           /\ \A k \in {"api_server", "protocol", "is_need_login"} : Len(PairsOf(q, k)) = 1
           /\ setOrCaller("login_error_message", last.in.sess.loginErr)
           /\ setOrCaller("referer_whitelist", last.in.wl # <<>>)
           /\ PairsOf(q, "other") = callerPairs("other")
=============================================================================

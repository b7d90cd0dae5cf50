----------------------------- MODULE DHCP4Reply -----------------------------
(***************************************************************************)
(* The DHCPv4 reply builder of pkg/util/dhcp/helpers.go: MakeReplyPacket,  *)
(* makeDHCPReplyPacket and the option encoders, serving a stream of        *)
(* requests.  The builder receives the ResponseConfig by pointer and       *)
(* writes conf.OsName when it detects a Windows client, so the config is   *)
(* state: a caller that hands the same config to several requests sees the *)
(* write.  Whether it does is the caller's choice (UseConfig below).       *)
(*                                                                         *)
(* The v4 Packet type (ReplyPacket, AddOption, ParseOptions) is not part   *)
(* of this source tree; it is modelled from the spec (section 4.3/4.5) at  *)
(* the level of the option list: a reply is [type, yiaddr, siaddr, opts].  *)
(* Addresses are 4-byte sequences, <<>> standing for a nil net.IP.         *)
(***************************************************************************)
EXTENDS Integers, Sequences, SequencesExt

CONSTANTS
    Configs,       \* ResponseConfigs the lease/policy code may compute
    Requests,      \* requests: [type, reqIP, vendor]
    MSFTVendors,   \* the vendor class ids that start with "MSFT "
    WinOsNames     \* the OsName values whose lower case starts with "win"

VARIABLES
    conf,      \* the ResponseConfig the builder is handed (a pointer)
    policy,    \* the config as the policy computed it, before any request
    lastReq,   \* the request answered last
    lastReply  \* the reply built for it

vars == <<conf, policy, lastReq, lastReply>>

\* Message types and option codes (RFC 2132, helpers.go:29-34)
Discover == 1
Offer == 2
Request == 3
Inform == 8
ACK == 5
NAK == 6
OptionSubnetMask == 1
OptionRouter == 3
OptionDomainNameServer == 6
OptionHostName == 12
OptionBootFileSize == 13
OptionDomainName == 15
OptionInterfaceMTU == 26
OptionBroadcastAddress == 28
OptionNetworkTimeProtocolServers == 42
OptionIPAddressLeaseTime == 51
OptionDHCPMessageType == 53
OptionServerIdentifier == 54
OptionRenewalTimeValue == 58
OptionTFTPServerName == 66
OptionBootFileName == 67
OptionRelayAgentInformation == 82
OptionIPv6Only == 108
OptClasslessRouteLin == 121
OptClasslessRouteWin == 249

NoRequest == [type |-> 0, reqIP |-> <<>>, vendor |-> ""]
NoReply == [type |-> 0, yiaddr |-> <<>>, siaddr |-> <<>>, opts |-> <<>>]

Opt(c, v) == [code |-> c, value |-> v]

\* GetOptUint16 / GetOptUint32: big-endian fixed-width encodings.
GetOptUint16(v) == << (v \div 256) % 256, v % 256 >>
GetOptUint32(v) == << (v \div 16777216) % 256, (v \div 65536) % 256,
                      (v \div 256) % 256, v % 256 >>

\* GetOptTime: whole seconds as uint32.  The conversion keeps 32 bits; the
\* durations modelled stay below 2^31 s (TLC's integers), so it is exact.
GetOptTime(seconds) == GetOptUint32(seconds)

\* GetOptIPs: the 4-byte forms concatenated in list order.
GetOptIPs(ips) == FlattenSeq(ips)

(***************************************************************************)
(* getClasslessRoutePack (RFC 3442): mask length, the ceil(len/8)          *)
(* significant prefix bytes, then the gateway.  A route is                 *)
(* [prefix: 4 bytes, len: 0..32, gw: 4 bytes]; the routes reach it split   *)
(* from the IPv6 ones by extendRoutes, so To4 never yields nil here.       *)
(***************************************************************************)
\* Mutant of getClasslessRoutePack: len / 8 bytes, the partial byte dropped.
getClasslessRoutePackFloor(route) ==
    LET netlen == route.len \div 8
    IN  <<route.len>> \o (IF netlen < 4 THEN SubSeq(route.prefix, 1, netlen) ELSE route.prefix)
        \o route.gw

getClasslessRoutePack(route) ==
    LET netlen == route.len \div 8 + (IF route.len % 8 > 0 THEN 1 ELSE 0)
        net    == IF netlen < 4 THEN SubSeq(route.prefix, 1, netlen) ELSE route.prefix
    IN  <<route.len>> \o net \o route.gw

\* ReplyPacket (spec-modelled): BOOTREPLY with yiaddr, then message type,
\* server identifier, lease time (when positive), then the given options.
ReplyPacket(msgType, serverIP, yiaddr, leaseTime, opts) ==
    [type   |-> msgType,
     yiaddr |-> yiaddr,
     siaddr |-> <<>>,
     opts   |-> << Opt(OptionDHCPMessageType, <<msgType>>),
                   Opt(OptionServerIdentifier, serverIP) >>
                \o (IF leaseTime > 0
                    THEN << Opt(OptionIPAddressLeaseTime, GetOptTime(leaseTime)) >>
                    ELSE <<>>)
                \o opts]

\* AddOption (spec-modelled): append before the End option.
AddOption(resp, code, value) == [resp EXCEPT !.opts = Append(@, Opt(code, value))]
AddOptions(resp, new) == [resp EXCEPT !.opts = @ \o new]

\* The OsName the builder ends up with: a Windows vendor class fills an
\* empty OsName with "win" (helpers.go:152-156).
DetectedOsName(req, c) ==
    IF c.osName = "" /\ req.vendor \in MSFTVendors THEN "win" ELSE c.osName

\* The options of helpers.go:158-193, each present when its field is set,
\* in the code's order; a nil ClientIP adds IPv6-only preference 60 s.
BaseOptions(c) ==
    LET field(code, v) == IF v = <<>> THEN <<>> ELSE << Opt(code, v) >>
    IN  field(OptionSubnetMask, c.subnetMask)
        \o field(OptionRouter, c.gateway)
        \o field(OptionDomainName, c.domain)
        \o field(OptionBroadcastAddress, c.broadcast)
        \o field(OptionHostName, c.hostname)
        \o field(OptionDomainNameServer, GetOptIPs(c.dns))
        \o field(OptionNetworkTimeProtocolServers, GetOptIPs(c.ntp))
        \o (IF c.mtu > 0 THEN << Opt(OptionInterfaceMTU, GetOptUint16(c.mtu)) >> ELSE <<>>)
        \o field(OptionRelayAgentInformation, c.relayInfo)
        \o (IF c.clientIP = <<>> THEN << Opt(OptionIPv6Only, GetOptUint32(60)) >> ELSE <<>>)

\* makeDHCPReplyPacket for a config whose OsName has already been settled.
makeDHCPReplyPacket(req, c, msgType) ==
    LET resp0 == ReplyPacket(msgType, c.serverIP,
                             IF c.clientIP = <<>> THEN <<0, 0, 0, 0>> ELSE c.clientIP,
                             c.leaseTime, BaseOptions(c))
        resp1 == IF c.bootServer = <<>> THEN resp0
                 ELSE AddOption([resp0 EXCEPT !.siaddr = c.bootServer],
                                OptionTFTPServerName, c.bootServer \o <<0>>)
        resp2 == IF c.bootFile = <<>> THEN resp1
                 ELSE AddOption(AddOption(resp1, OptionBootFileName, c.bootFile \o <<0>>),
                                OptionBootFileSize, GetOptUint16(c.bootBlock))
        resp3 == IF c.renewalTime > 0
                 THEN AddOption(resp2, OptionRenewalTimeValue, GetOptTime(c.renewalTime))
                 ELSE resp2
        code  == IF c.osName \in WinOsNames THEN OptClasslessRouteWin ELSE OptClasslessRouteLin
    IN  IF c.routesNil THEN resp3
        ELSE AddOptions(resp3, [i \in DOMAIN c.routes |->
                                  Opt(code, getClasslessRoutePack(c.routes[i]))])

\* Mutant of ReplyType: NAK without checking that option 50 was sent.
ReplyTypeNoOption50(req, c) ==
    IF req.type = Request
    THEN IF c.clientIP # req.reqIP THEN NAK ELSE ACK
    ELSE Offer

\* Mutant of ReplyType: the request's own type echoed for non-REQUESTs.
ReplyTypeEcho(req, c) ==
    IF req.type = Request
    THEN IF req.reqIP # <<>> /\ c.clientIP # req.reqIP THEN NAK ELSE ACK
    ELSE req.type

\* MakeReplyPacket: NAK a REQUEST whose requested address (option 50) is
\* present and differs from the config's ClientIP, ACK other REQUESTs,
\* OFFER anything else.
ReplyType(req, c) ==
    IF req.type = Request
    THEN IF req.reqIP # <<>> /\ c.clientIP # req.reqIP THEN NAK ELSE ACK
    ELSE Offer

-----------------------------------------------------------------------------

Init ==
    /\ conf \in Configs
    /\ policy = conf
    /\ lastReq = NoRequest
    /\ lastReply = NoReply

\* The caller hands the builder a config freshly computed by the policy
\* (lastReq/lastReply then describe requests served with this config).
UseConfig(c) ==
    /\ conf' = c
    /\ policy' = c
    /\ lastReq' = NoRequest
    /\ lastReply' = NoReply

\* MakeReplyPacket(req, conf): the OsName write through the pointer, then
\* the reply built from the updated config.
MakeReplyPacket(req) ==
    LET c == [conf EXCEPT !.osName = DetectedOsName(req, conf)]
    IN  /\ conf' = c
        /\ lastReq' = req
        /\ lastReply' = makeDHCPReplyPacket(req, c, ReplyType(req, conf))
        /\ UNCHANGED policy

Next ==
    \/ \E c \in Configs : UseConfig(c)
    \/ \E r \in Requests : MakeReplyPacket(r)

Spec == Init /\ [][Next]_vars
-----------------------------------------------------------------------------
(* Properties *)

TypeOK ==
    /\ DOMAIN conf = DOMAIN policy
    /\ conf.osName \in {policy.osName, "win"}
    /\ lastReply.type \in {0, Offer, ACK, NAK}
    /\ \A i \in DOMAIN lastReply.opts : lastReply.opts[i].value \in Seq(0..255)

RouteOptions == SelectSeq(lastReply.opts,
                    LAMBDA o : o.code \in {OptClasslessRouteLin, OptClasslessRouteWin})

\* RFC 3442 decoding of one classless-route option value: the mask length,
\* then (len + 7) div 8 destination bytes, then a 4-byte router.
DecodeClasslessRoute(v) ==
    LET k == (v[1] + 7) \div 8
    IN  [len |-> v[1], dest |-> SubSeq(v, 2, 1 + k), gw |-> SubSeq(v, 2 + k, Len(v)),
         wellFormed |-> Len(v) = 5 + k]

\* Every configured route is sent, in order, under one option code, and
\* decodes by RFC 3442 to the configured mask length, the significant bytes
\* of the configured prefix and the configured gateway.
ClasslessRoutesDecode ==
    lastReply.type # 0 =>
        IF conf.routesNil THEN RouteOptions = <<>>
        ELSE /\ Len(RouteOptions) = Len(conf.routes)
             /\ \A i, j \in DOMAIN RouteOptions : RouteOptions[i].code = RouteOptions[j].code
             /\ \A i \in DOMAIN RouteOptions :
                   LET d == DecodeClasslessRoute(RouteOptions[i].value)
                       r == conf.routes[i]
                   IN  /\ d.wellFormed
                       /\ d.len = r.len /\ d.gw = r.gw
                       /\ d.dest = SubSeq(r.prefix, 1, (r.len + 7) \div 8)

\* The client is never pointed at another address than the configured one:
\* yiaddr is ClientIP (0.0.0.0 with the IPv6-only option when there is none),
\* and a REQUEST is refused exactly when it asked for a different address.
ReplyAssignsConfiguredAddress ==
    lastReply.type # 0 =>
        /\ lastReply.yiaddr = IF conf.clientIP = <<>> THEN <<0, 0, 0, 0>> ELSE conf.clientIP
        /\ (Opt(OptionIPv6Only, <<0, 0, 0, 60>>) \in Range(lastReply.opts) <=> conf.clientIP = <<>>)
        /\ (lastReply.type = NAK <=> lastReq.type = Request /\ lastReq.reqIP # <<>>
                                     /\ lastReq.reqIP # conf.clientIP)
=============================================================================

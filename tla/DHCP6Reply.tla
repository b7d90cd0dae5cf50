----------------------------- MODULE DHCP6Reply -----------------------------
(***************************************************************************)
(* The DHCPv6 reply builder of pkg/util/dhcp/packet6.go: MakeDHCP6Reply   *)
(* and makeDHCPReplyPacket6 with their helpers, as pure operators over the *)
(* byte-level packets of Packet6.                                          *)
(*                                                                         *)
(* A ResponseConfig is abstracted to the fields the v6 builder reads:      *)
(*   [mac: 6 bytes (InterfaceMac), lease: LeaseTime in whole seconds,      *)
(*    ip6: 16 bytes or <<>> for nil (ClientIP6),                           *)
(*    dns6, ntp6: sequences of 16-byte addresses (DNSServers6, NTPServers6)]*)
(***************************************************************************)
EXTENDS Packet6

DUID_TYPE_LINK_LAYER_ADDRESS == 3
DUID_HARDWARE_TYPE_ETHERNET == 1

\* The value of the STATUS_CODE sub-option: status 0 and the text "Success".
StatusSuccess == <<0, 0, 83, 117, 99, 99, 101, 115, 115>>

Zeros(n) == [i \in 1..n |-> 0]

\* Mutant of makeServerId: DUID type and hardware type written swapped.
makeServerIdSwapped(mac) ==
    IF Len(mac) < 6 THEN Fail("Panic")
    ELSE Ok(PutUint16(DUID_HARDWARE_TYPE_ETHERNET)
            \o PutUint16(DUID_TYPE_LINK_LAYER_ADDRESS) \o SubSeq(mac, 1, 6))

\* makeServerId: DUID-LL; serverMac[:6] panics when the MAC is shorter.
makeServerId(mac) ==
    IF Len(mac) < 6 THEN Fail("Panic")
    ELSE Ok(PutUint16(DUID_TYPE_LINK_LAYER_ADDRESS)
            \o PutUint16(DUID_HARDWARE_TYPE_ETHERNET) \o SubSeq(mac, 1, 6))

\* makeIAAddr: copy(buf[0:16], ip.To16()) leaves zeros for a nil address.
makeIAAddr(ip, preferLT, validLT, opts) ==
    (IF ip = <<>> THEN Zeros(16) ELSE ip)
    \o PutUint32(preferLT) \o PutUint32(validLT) \o optionsToBytes(opts)

\* Mutant of responseIANA: the client's IA_NA copied whole, hints included.
responseIANAUntruncated(buf, opts) ==
    (IF Len(buf) < 12 THEN buf \o Zeros(12 - Len(buf)) ELSE buf) \o optionsToBytes(opts)

\* responseIANA: the client's IAID/T1/T2, zero-padded or cut to 12 bytes,
\* followed by the nested options.
responseIANA(buf, opts) ==
    (IF Len(buf) < 12 THEN buf \o Zeros(12 - Len(buf)) ELSE SubSeq(buf, 1, 12))
    \o optionsToBytes(opts)

\* makeIPv6s: the 16-byte forms, in list order (nil entries add nothing).
makeIPv6s(ips) == FlattenSeq(ips)

\* decodeRequestOptions reads value[i:i+2] for every even i < len(value);
\* the value was allocated with exactly its length, so an odd length makes
\* the last read run past the slice's capacity: a panic.
decodeRequestOptions(value) ==
    IF Len(value) % 2 = 1 THEN Fail("Panic") ELSE Ok(Len(value) \div 2)

(***************************************************************************)
(* makeDHCPReplyPacket6, in the code's order: TID6, the ORO decode (logged *)
(* only), CLIENTID echo, SERVERID, IA_NA with IAADDR and STATUS_CODE,      *)
(* DNS and SNTP servers, rapid commit, then header and options.            *)
(***************************************************************************)
makeDHCPReplyPacket6(pkt, conf, msgType) ==
    LET tid       == TID6(pkt)
        opts      == GetOption6s(pkt)
        oro       == IF HasOption(opts, DHCPV6_OPTION_ORO)
                        /\ Len(OptionValue(opts, DHCPV6_OPTION_ORO)) > 0
                     THEN decodeRequestOptions(OptionValue(opts, DHCPV6_OPTION_ORO))
                     ELSE Ok(0)
        serverId  == makeServerId(conf.mac)
        validLT   == conf.lease
        preferLT  == validLT \div 2
        iana      == responseIANA(OptionValue(opts, DHCPV6_OPTION_IA_NA),
                        << [code |-> DHCPV6_OPTION_IAADDR,
                            value |-> makeIAAddr(conf.ip6, preferLT, validLT,
                                        << [code |-> DHCPV6_OPTION_STATUS_CODE,
                                            value |-> StatusSuccess] >>)] >>)
        rapid     == Type6(pkt) = DHCPV6_SOLICIT
                        /\ HasOption(opts, DHCPV6_OPTION_RAPID_COMMIT)
        options   ==
            << [code |-> DHCPV6_OPTION_CLIENTID,
                value |-> OptionValue(opts, DHCPV6_OPTION_CLIENTID)],
               [code |-> DHCPV6_OPTION_SERVERID, value |-> serverId.val],
               [code |-> DHCPV6_OPTION_IA_NA, value |-> iana] >>
            \o (IF conf.dns6 # <<>>
                THEN << [code |-> OPTION_DNS_SERVERS, value |-> makeIPv6s(conf.dns6)] >>
                ELSE <<>>)
            \o (IF conf.ntp6 # <<>>
                THEN << [code |-> OPTION_SNTP_SERVERS, value |-> makeIPv6s(conf.ntp6)] >>
                ELSE <<>>)
            \o (IF rapid THEN << [code |-> DHCPV6_OPTION_RAPID_COMMIT, value |-> <<>>] >>
                ELSE <<>>)
    IN  CASE tid.err # ""                                  -> Fail(tid.err)
          [] oro.err # ""                                  -> Fail(oro.err)
          [] ~HasOption(opts, DHCPV6_OPTION_CLIENTID)      -> Fail("InvalidFormat")
          [] serverId.err # ""                             -> Fail(serverId.err)
          [] ~HasOption(opts, DHCPV6_OPTION_IA_NA)         -> Fail("InvalidFormat")
          [] OTHER -> Ok(NewPacket6(IF rapid THEN DHCPV6_REPLY ELSE msgType, tid.val)
                         \o optionsToBytes(options))

\* Mutant of ReplyType: every supported request answered with REPLY.
ReplyTypeAllReply == [t \in {DHCPV6_SOLICIT, DHCPV6_REQUEST, DHCPV6_CONFIRM, DHCPV6_RENEW,
                             DHCPV6_REBIND, DHCPV6_INFORMATION_REQUEST} |-> DHCPV6_REPLY]

\* MakeDHCP6Reply: the request-to-reply message type map; any other type,
\* relay messages included, is ErrNotSupported.
ReplyType == [t \in {DHCPV6_SOLICIT, DHCPV6_REQUEST, DHCPV6_CONFIRM, DHCPV6_RENEW,
                     DHCPV6_REBIND, DHCPV6_INFORMATION_REQUEST} |->
                 IF t = DHCPV6_SOLICIT THEN DHCPV6_ADVERTISE ELSE DHCPV6_REPLY]

\* Mutant of MakeDHCP6Reply: a default branch answering any type with REPLY.
MakeDHCP6ReplyAnyType(pkt, conf) == makeDHCPReplyPacket6(pkt, conf, DHCPV6_REPLY)

MakeDHCP6Reply(pkt, conf) ==
    IF Type6(pkt) \in DOMAIN ReplyType
    THEN makeDHCPReplyPacket6(pkt, conf, ReplyType[Type6(pkt)])
    ELSE Fail("NotSupported")
=============================================================================

--------------------------- MODULE MCDHCP6Exchange ---------------------------
(* Model values for DHCP6Exchange: a few requests of every shape the      *)
(* builder distinguishes, and two server configurations.                  *)
EXTENDS DHCP6Exchange

\* An IPv6 address / MAC, distinguished by its last byte.
Addr6(k) == Zeros(15) \o <<k>>
Mac(k) == <<2, 0, 0, 0, 0, k>>

Opt(c, v) == [code |-> c, value |-> v]

\* IA_NA values a client sends: shorter than 12 bytes, exactly IAID/T1/T2,
\* and IAID/T1/T2 followed by an IAADDR hint (RFC 8415 21.4).
IANAShort == <<0, 0, 0, 7>>
IANAExact == <<0, 0, 0, 7, 0, 0, 1, 0, 0, 0, 2, 0>>
IANAHint  == IANAExact \o optionToBytes(Opt(DHCPV6_OPTION_IAADDR, Addr6(9) \o Zeros(8)))

ClientIdOpts == { <<>>, << Opt(DHCPV6_OPTION_CLIENTID, <<0, 3, 0, 1, 2, 0, 0, 0, 0, 5>>) >> }
IANAOpts == { <<>> } \cup { << Opt(DHCPV6_OPTION_IA_NA, v) >> : v \in {IANAShort, IANAExact, IANAHint} }
RapidOpts == { <<>>, << Opt(DHCPV6_OPTION_RAPID_COMMIT, <<>>) >> }

\* ORO values: an empty one, one listing DNS and SNTP servers.
WellFormedOROs == { <<>>, << Opt(DHCPV6_OPTION_ORO, <<0, 23, 0, 31>>) >> }
\* An ORO whose length is odd (a truncated or hostile client).
OddOROs == { << Opt(DHCPV6_OPTION_ORO, <<0, 23, 0>>) >> }

OptionListsWith(OROs) ==
    { c \o o \o i \o r : c \in ClientIdOpts, o \in OROs, i \in IANAOpts, r \in RapidOpts }

MCRequestOptionLists == OptionListsWith(WellFormedOROs)
MCRequestOptionListsOddORO == OptionListsWith(WellFormedOROs \cup OddOROs)

MCRequestTypes == {DHCPV6_SOLICIT, DHCPV6_REQUEST, DHCPV6_CONFIRM, DHCPV6_RENEW,
                   DHCPV6_REBIND, DHCPV6_INFORMATION_REQUEST, DHCPV6_RELEASE}

\* The lowest and highest 24-bit transaction ids.
MCTIDs == {0, 16777215}

\* A dual-stack configuration with an odd lease, and one without ClientIP6.
MCConfigs ==
    { [mac |-> Mac(17), lease |-> 7201, ip6 |-> Addr6(33),
       dns6 |-> << Addr6(53) >>, ntp6 |-> << Addr6(123), Addr6(124) >>],
      [mac |-> Mac(18), lease |-> 86400, ip6 |-> <<>>, dns6 |-> <<>>, ntp6 |-> <<>>] }
=============================================================================

---------------------------- MODULE MCDHCP4Reply ----------------------------
(* Model values for DHCP4Reply: Discover and Request from a Linux and a   *)
(* Windows client, with and without option 50, against three configs.     *)
EXTENDS DHCP4Reply

IP(d) == <<10, 0, 0, d>>

Route(p, l, g) == [prefix |-> p, len |-> l, gw |-> g]

\* Routes at every netlen boundary: /0, /12, /24, /25 and /32.
MCRoutes == << Route(<<0, 0, 0, 0>>, 0, IP(1)),
               Route(<<172, 16, 0, 0>>, 12, IP(1)),
               Route(<<192, 168, 1, 0>>, 24, IP(254)),
               Route(<<192, 168, 2, 128>>, 25, IP(254)),
               Route(<<169, 254, 169, 254>>, 32, <<0, 0, 0, 0>>) >>

BaseConfig ==
    [osName |-> "", clientIP |-> IP(5), serverIP |-> IP(1),
     subnetMask |-> <<255, 255, 255, 0>>, gateway |-> IP(1), domain |-> <<101, 120>>,
     broadcast |-> IP(255), hostname |-> <<104>>, dns |-> << IP(2), IP(3) >>, ntp |-> <<>>,
     mtu |-> 1500, relayInfo |-> <<>>, leaseTime |-> 86400, renewalTime |-> 43200,
     bootServer |-> <<>>, bootFile |-> <<>>, bootBlock |-> 0, routes |-> MCRoutes, routesNil |-> FALSE]

MCConfigs ==
    { BaseConfig,
      \* a PXE config for a host whose OS is known, no routes, no ClientIP
      [BaseConfig EXCEPT !.osName = "Windows", !.clientIP = <<>>, !.routesNil = TRUE, !.routes = <<>>,
                         !.bootServer = IP(9), !.bootFile = <<112>>, !.bootBlock = 512,
                         !.relayInfo = <<1, 2, 0, 7>>, !.ntp = << IP(4) >>, !.renewalTime = 0],
      \* a config with an empty route list and no DNS
      [BaseConfig EXCEPT !.routes = <<>>, !.dns = <<>>, !.mtu = 0, !.leaseTime = 0] }

MCMSFTVendors == {"MSFT 5.0"}
MCWinOsNames == {"win", "Windows"}

MCRequests ==
    { [type |-> t, reqIP |-> a, vendor |-> v] :
        t \in {Discover, Request, Inform}, a \in {<<>>, IP(5), IP(6)},
        v \in {"MSFT 5.0", "PXEClient", ""} }
=============================================================================

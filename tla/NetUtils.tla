------------------------------ MODULE NetUtils ------------------------------
(***************************************************************************)
(* The address helpers of pkg/util/netutils2/netutils.go used when a       *)
(* guest's network is deployed: the choice of the main NIC                 *)
(* (GetMainNicFromDeployApi), the route lists built NIC by NIC             *)
(* (AddNicRoutes, extendRoutes, addRoute), and the netmask conversions     *)
(* (NetBytes2Mask, netmask2len, Netmask2Len, PrefixSplit).                 *)
(*                                                                         *)
(* An IPv4 address is a member of IPs, with Private telling what         *)
(* netutils.IsPrivate says of it (IsExitAddress: not private); BadIp does *)
(* not parse.  A route destination is [v6, prefix, len] or BadNet, which  *)
(* ParseRouteInfo (not in this tree) rejects.  A dotted string is kept as  *)
(* its strings.Split(_, ".") list: "" is <<"">>.                           *)
(***************************************************************************)
EXTENDS Integers, Sequences, SequencesExt, TLC

CONSTANTS
    IPs,            \* IPv4 addresses that parse
    Private,        \* the private ones among them
    BadIp,          \* an address NewIPV4Addr rejects
    NoIp,           \* the empty string
    BadNet,         \* a route destination ParseRouteInfo rejects
    PrivateRanges,  \* GetPrivateIPRanges()...ToPrefixes(), as destinations
    MetaRoute4,     \* 169.254.169.254/32
    MetaRoutes6     \* <<fd00:ec2::254/128, fe80::a9fe:a9fe/128>>

\* netutils.IsExitAddress: a public address.
isExitAddress(ip) == ip \in IPs \ Private

-----------------------------------------------------------------------------
(* Routes *)

\* Mutant of addRoute: the route is appended without looking for one to
\* the same destination.
addRouteNoDedup(routes, net, gw) ==
    IF net = BadNet THEN routes
    ELSE Append(routes, [prefix |-> net.prefix, len |-> net.len, gw |-> gw])

\* addRoute: append the parsed route unless one with the same prefix and
\* length is already there.
addRoute(routes, net, gw) ==
    IF net = BadNet \/ \E i \in DOMAIN routes : routes[i].prefix = net.prefix
                                               /\ routes[i].len = net.len
    THEN routes
    ELSE Append(routes, [prefix |-> net.prefix, len |-> net.len, gw |-> gw])

\* extendRoutes: each NIC route goes to the v6 list if it is a CIDR6.
extendRoutes(r46, nicRoutes) ==
    LET step(acc, rt) ==
            IF rt.net # BadNet /\ rt.net.v6
            THEN [acc EXCEPT ![2] = addRoute(@, rt.net, rt.gw)]
            ELSE [acc EXCEPT ![1] = addRoute(@, rt.net, rt.gw)]
    IN FoldLeft(step, r46, nicRoutes)

\* AddNicRoutes: the NIC's own routes, or, for the non-main NIC of a guest
\* with two NICs whose main NIC is public, routes to the private ranges via
\* its gateway; then the metadata routes for the main NIC.
AddNicRoutes(r46, nic, mainIp, mainIp6, nicCnt) ==
    LET own == IF nic.routes # <<>>
               THEN extendRoutes(r46, nic.routes)
               ELSE IF /\ nic.gateway # NoIp /\ ~isExitAddress(nic.ip)
                       /\ nicCnt = 2 /\ nic.ip # mainIp /\ isExitAddress(mainIp)
                    THEN <<FoldLeft(LAMBDA rs, p : addRoute(rs, p, nic.gateway),
                                    r46[1], PrivateRanges), r46[2]>>
                    ELSE r46
        meta4 == IF mainIp # NoIp /\ nic.ip = mainIp
                 THEN <<addRoute(own[1], MetaRoute4, "0.0.0.0"), own[2]>>
                 ELSE own
    IN IF mainIp6 # NoIp /\ nic.ip6 = mainIp6
       THEN <<meta4[1], FoldLeft(LAMBDA rs, p : addRoute(rs, p, "::"), meta4[2], MetaRoutes6)>>
       ELSE meta4

-----------------------------------------------------------------------------
(* The main NIC *)

\* Mutant of MainNicPass: any later public NIC replaces the chosen one.
MainNicPassLastPublic(nics, gwOnly, start) ==
    LET step(acc, i) ==
            CASE acc.err \/ (gwOnly /\ nics[i].gateway = NoIp) -> acc
              [] nics[i].ip = BadIp            -> [acc EXCEPT !.err = TRUE]
              [] acc.main = 0                  -> [acc EXCEPT !.main = i]
              [] ~(nics[i].ip \in Private)      -> [acc EXCEPT !.main = i]
              [] OTHER                         -> acc
    IN FoldLeft(step, start, [i \in 1..Len(nics) |-> i])

\* One pass of GetMainNicFromDeployApi over the NICs (with a gateway if
\* gwOnly):
\* the first one, replaced by a later public one while the chosen one is
\* private; an address that does not parse is an error.  NoIp as main
\* stands for mainIp == 0.
MainNicPass(nics, gwOnly, start) ==
    LET step(acc, i) ==
            CASE acc.err \/ (gwOnly /\ nics[i].gateway = NoIp) -> acc
              [] nics[i].ip = BadIp            -> [acc EXCEPT !.err = TRUE]
              [] acc.main = 0                  -> [acc EXCEPT !.main = i]
              [] ~(nics[i].ip \in Private) /\ nics[acc.main].ip \in Private
                                               -> [acc EXCEPT !.main = i]
              [] OTHER                         -> acc
    IN FoldLeft(step, start, [i \in 1..Len(nics) |-> i])

\* GetMainNicFromDeployApi: first among the NICs with a gateway, then, if
\* none has one, among all.  The result is the index of the main NIC, 0
\* for an error.
GetMainNicFromDeployApi(nics) ==
    LET gw == MainNicPass(nics, TRUE, [err |-> FALSE, main |-> 0])
        all == MainNicPass(nics, FALSE, gw)
    IN CASE gw.err       -> 0
         [] gw.main # 0  -> gw.main
         [] all.err      -> 0
         [] OTHER        -> all.main

-----------------------------------------------------------------------------
(* Netmasks *)

\* NetBytes2Mask: four bytes as dotted decimal, "" for any other length.
NetBytes2Mask(mask) ==
    IF Len(mask) # 4 THEN <<"">> ELSE [i \in 1..4 |-> ToString(mask[i])]

\* Mutant of netmask2len: "254" left out of the table.
netmask2lenNo254(d) ==
    LET masks == <<"0", "128", "192", "224", "240", "248", "252", "255">>
    IN IF \E i \in 1..8 : masks[i] = d
       THEN (CHOOSE i \in 1..8 : masks[i] = d) - 1
       ELSE -1

\* netmask2len: the number of leading ones of a mask octet, -1 if it is not
\* one of the nine such octets.
netmask2len(d) ==
    LET masks == <<"0", "128", "192", "224", "240", "248", "252", "254", "255">>
    IN IF \E i \in 1..9 : masks[i] = d
       THEN (CHOOSE i \in 1..9 : masks[i] = d) - 1
       ELSE -1

\* Netmask2Len: the sum of netmask2len over the octets that are not "0",
\* -1 as soon as one is not a mask octet.
Netmask2Len(mask) ==
    LET step(acc, d) == CASE acc < 0 -> acc
                          [] d = "0" -> acc
                          [] netmask2len(d) < 0 -> -1
                          [] OTHER -> acc + netmask2len(d)
    IN FoldLeft(step, 0, mask)

\* PrefixSplit: "ip/mask" with the mask dotted (Netmask2Len) or decimal
\* (Atoi, an error if it is not a number); no "/", or a "/" in the first
\* position, gives the whole string and 32.  pref is [slash, ip, mask]
\* with slash "none" | "first" | "inner"; mask is [form |-> "dotted",
\* octets |-> ...], [form |-> "int", n |-> ...] or [form |-> "junk"].
PrefixSplit(pref) ==
    CASE pref.slash # "inner"        -> [ip |-> pref, len |-> 32, err |-> FALSE]
      [] pref.mask.form = "dotted"   -> [ip |-> pref.ip, len |-> Netmask2Len(pref.mask.octets),
                                         err |-> FALSE]
      [] pref.mask.form = "int"      -> [ip |-> pref.ip, len |-> pref.mask.n, err |-> FALSE]
      [] OTHER                       -> [ip |-> NoIp, len |-> 0, err |-> TRUE]

-----------------------------------------------------------------------------
(* MAC addresses.  A string is the sequence of its one-character strings   *)
(* (the bytes of an ASCII string).                                         *)

HexLower == {"0", "1", "2", "3", "4", "5", "6", "7", "8", "9", "a", "b", "c", "d", "e", "f"}
\* unicode.ToLower on "ABCDEF".
ToLowerHex == [c \in {"A", "B", "C", "D", "E", "F"} |->
                 CASE c = "A" -> "a" [] c = "B" -> "b" [] c = "C" -> "c"
                   [] c = "D" -> "d" [] c = "E" -> "e" [] c = "F" -> "f"]

\* Mutant of FormatMac: each group takes ret[i:i+1], one digit.
FormatMacOneDigit(mac) ==
    LET kept == SelectSeq(mac, LAMBDA c : c \in HexLower \cup DOMAIN ToLowerHex)
        ret == [i \in DOMAIN kept |-> IF kept[i] \in HexLower THEN kept[i] ELSE ToLowerHex[kept[i]]]
        res == FlattenSeq([k \in 1..6 |-> SubSeq(ret, 2 * k - 1, 2 * k - 1) \o <<":">>])
    IN IF Len(ret) = 12 THEN SubSeq(res, 1, Len(res) - 1) ELSE <<>>

\* FormatMac: the hex digits of the string, upper-case ones lowered, every
\* other byte dropped; twelve digits are written as six pairs, each
\* followed by ":", and the last ":" cut; any other count gives "".
FormatMac(mac) ==
    LET kept == SelectSeq(mac, LAMBDA c : c \in HexLower \cup DOMAIN ToLowerHex)
        ret == [i \in DOMAIN kept |-> IF kept[i] \in HexLower THEN kept[i] ELSE ToLowerHex[kept[i]]]
        res == FlattenSeq([k \in 1..6 |-> SubSeq(ret, 2 * k - 1, 2 * k) \o <<":">>])
    IN IF Len(ret) = 12 THEN SubSeq(res, 1, Len(res) - 1) ELSE <<>>

\* MacEqual: both formatted forms are non-empty and equal.
MacEqual(mac1, mac2) ==
    LET f1 == FormatMac(mac1)
        f2 == FormatMac(mac2)
    IN Len(f1) > 0 /\ Len(f2) > 0 /\ f1 = f2

-----------------------------------------------------------------------------
(* TestTcpPort.  dial[i] is what net.DialTimeout gives on the i-th try:    *)
(* "err" (an error), "conn" (a connection, closed at once) or "nilconn"    *)
(* (no error and no connection).  errors.NewAggregate (yunion.io/x/pkg,    *)
(* outside this tree) gives nil for an empty list and an error otherwise.  *)
(* The result is [err, dials, errs, timeout]: dials is the number of dials *)
(* made, errs the errors collected, timeout the one each dial was given.   *)

\* Mutant of TestTcpPort: tries is used as given.
TestTcpPortNoDefault(timeoutSecs, tries, dial) ==
    LET RECURSIVE loop(_, _)
        loop(i, errs) ==
            CASE i >= tries           -> [err |-> IF errs = <<>> THEN "nil" ELSE "aggregate",
                                          dials |-> i, errs |-> errs]
              [] dial[i + 1] = "conn" -> [err |-> "nil", dials |-> i + 1, errs |-> errs]
              [] OTHER                -> loop(i + 1, Append(errs, dial[i + 1]))
    IN [timeout |-> IF timeoutSecs <= 0 THEN 3 ELSE timeoutSecs] @@ loop(0, <<>>)

\* TestTcpPort: timeoutSecs and tries default to 3 when not positive; each
\* try dials, returns nil on a connection, and otherwise records the error
\* (or a "nil conn" error) and tries again; after the last try the errors
\* are returned as one aggregate.
TestTcpPort(timeoutSecs, tries, dial) ==
    LET t == IF tries <= 0 THEN 3 ELSE tries
        RECURSIVE loop(_, _)
        loop(i, errs) ==
            CASE i >= t               -> [err |-> IF errs = <<>> THEN "nil" ELSE "aggregate",
                                          dials |-> i, errs |-> errs]
              [] dial[i + 1] = "conn" -> [err |-> "nil", dials |-> i + 1, errs |-> errs]
              [] OTHER                -> loop(i + 1, Append(errs, dial[i + 1]))
    IN [timeout |-> IF timeoutSecs <= 0 THEN 3 ELSE timeoutSecs] @@ loop(0, <<>>)
=============================================================================

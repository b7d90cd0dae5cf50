---------------------------- MODULE DHCP6Exchange ----------------------------
(***************************************************************************)
(* One DHCPv6 request at a time travelling from a client, through up to    *)
(* MaxRelayDepth relay agents (EncapDHCP6RelayMsg), to the server, which   *)
(* unwraps it (DecapDHCP6RelayMsg) and answers it (MakeDHCP6Reply).  The   *)
(* server then takes the next datagram.  The client and the transport are  *)
(* the environment: they only choose the request; every step that changes *)
(* a packet is a function of pkg/util/dhcp/packet6.go.                     *)
(***************************************************************************)
EXTENDS DHCP6Reply

CONSTANTS
    RequestTypes,        \* msg-types a client may send
    TIDs,                \* transaction ids (24-bit)
    RequestOptionLists,  \* option lists a client may send, in wire order
    Configs,             \* ResponseConfigs the server may be given
    MaxRelayDepth        \* bound on nested RELAY-FORW envelopes

ASSUME MaxRelayDepth \in Nat

VARIABLES
    conf,    \* the server's ResponseConfig
    stage,   \* "idle" | "inflight" | "answered"
    req,     \* the leaf request the client sent
    wire,    \* the packet as it currently travels (possibly relay-wrapped)
    depth,   \* number of relay envelopes around req in wire
    reply    \* the server's result for req: [err, val]

vars == <<conf, stage, req, wire, depth, reply>>

NoReply == Fail("none")

\* Requests built the way a client builds them: NewPacket6 then options.
Requests == { NewPacket6(t, tid) \o optionsToBytes(opts) :
                t \in RequestTypes, tid \in TIDs, opts \in RequestOptionLists }

Init ==
    /\ conf \in Configs
    /\ stage = "idle"
    /\ req = <<>>
    /\ wire = <<>>
    /\ depth = 0
    /\ reply = NoReply

\* A client sends a request (the server is ready for the next datagram).
ClientSend(p) ==
    /\ stage \in {"idle", "answered"}
    /\ stage' = "inflight"
    /\ req' = p
    /\ wire' = p
    /\ depth' = 0
    /\ reply' = NoReply
    /\ UNCHANGED conf

\* A relay agent wraps the packet in a RELAY-FORW envelope.
RelayForward ==
    /\ stage = "inflight"
    /\ depth < MaxRelayDepth
    /\ wire' = EncapDHCP6RelayMsg(wire)
    /\ depth' = depth + 1
    /\ UNCHANGED <<conf, stage, req, reply>>

\* The server unwraps one relay envelope; a relay message without a
\* RELAY_MSG option is an InvalidFormat error for this datagram.
ServerDecap ==
    /\ stage = "inflight"
    /\ IsRelayMsg(wire)
    /\ LET r == DecapDHCP6RelayMsg(wire) IN
         IF r.err = ""
         THEN /\ wire' = r.val
              /\ depth' = depth - 1
              /\ UNCHANGED <<stage, reply>>
         ELSE /\ stage' = "answered"
              /\ reply' = r
              /\ UNCHANGED <<wire, depth>>
    /\ UNCHANGED <<conf, req>>

\* The server builds the reply to a leaf message.
ServerReply ==
    /\ stage = "inflight"
    /\ ~IsRelayMsg(wire)
    /\ stage' = "answered"
    /\ reply' = MakeDHCP6Reply(wire, conf)
    /\ UNCHANGED <<conf, req, wire, depth>>

Next ==
    \/ \E p \in Requests : ClientSend(p)
    \/ RelayForward
    \/ ServerDecap
    \/ ServerReply

Spec == Init /\ [][Next]_vars

-----------------------------------------------------------------------------
(* Properties *)

TypeOK ==
    /\ conf \in Configs
    /\ stage \in {"idle", "inflight", "answered"}
    /\ req \in Seq(Byte) /\ wire \in Seq(Byte)
    /\ depth \in 0..MaxRelayDepth
    /\ reply.err \in {"", "none", "InvalidFormat", "NotSupported", "Panic"}

Answered == stage = "answered" /\ reply.err = ""
ReqOpts == GetOption6s(req)
ReplyOpts == GetOption6s(reply.val)

\* Relay wrapping is transparent: however deep the envelope, TID6 and
\* ClientID recurse to the client's own values, and unwrapping as many
\* envelopes as were added gives back the client's bytes (the recursion of
\* TID6/ClientID and the RELAY_MSG length field of EncapDHCP6RelayMsg).
RelayTransparent ==
    stage = "inflight" =>
        /\ TID6(wire) = TID6(req)
        /\ ClientID(wire) = ClientID(req)
        /\ ~OptionsOverrun(wire)
        /\ depth = 0 => wire = req

\* A successful reply parses cleanly and answers this request: same
\* transaction id, the client's CLIENTID echoed, the server's DUID-LL.
ReplyAnswersRequest ==
    Answered =>
        /\ ~OptionsOverrun(reply.val)
        /\ TID6(reply.val) = TID6(req)
        /\ ClientID(reply.val) = ClientID(req)
        /\ OptionValue(ReplyOpts, DHCPV6_OPTION_SERVERID)
             = <<0, 3, 0, 1>> \o conf.mac

\* The IA_NA of a reply keeps the client's IAID/T1/T2 (padded to 12 bytes)
\* and nests exactly one IAADDR carrying the configured address, preferred
\* lifetime floor(L/2) and valid lifetime L, itself nesting STATUS_CODE
\* Success: nested TLVs of responseIANA/makeIAAddr decode back.
IANAReplyWellFormed ==
    Answered =>
        LET cli    == OptionValue(ReqOpts, DHCPV6_OPTION_IA_NA)
            ia     == OptionValue(ReplyOpts, DHCPV6_OPTION_IA_NA)
            inner  == ParseOptionsFrom(ia, 13)
            addr   == inner[1].value
            status == ParseOptionsFrom(addr, 25)
        IN  /\ ~OverrunFrom(ia, 13)
            /\ SubSeq(ia, 1, 12) = SubSeq(cli \o Zeros(12), 1, 12)
            /\ Len(inner) = 1 /\ inner[1].code = DHCPV6_OPTION_IAADDR
            /\ SubSeq(addr, 1, 16) = IF conf.ip6 = <<>> THEN Zeros(16) ELSE conf.ip6
            /\ SubSeq(addr, 17, 20) = PutUint32(conf.lease \div 2)
            /\ SubSeq(addr, 21, 24) = PutUint32(conf.lease)
            /\ status = << [code |-> DHCPV6_OPTION_STATUS_CODE, value |-> StatusSuccess] >>

\* Message type: SOLICIT gets ADVERTISE unless it carries RAPID_COMMIT, in
\* which case REPLY with an empty RAPID_COMMIT; every other supported
\* request gets REPLY and never a RAPID_COMMIT.
ReplyTypeFollowsRFC8415 ==
    Answered =>
        LET rapidAsked == Type6(req) = DHCPV6_SOLICIT
                            /\ HasOption(ReqOpts, DHCPV6_OPTION_RAPID_COMMIT)
        IN  /\ Type6(reply.val) = IF Type6(req) = DHCPV6_SOLICIT /\ ~rapidAsked
                                  THEN DHCPV6_ADVERTISE ELSE DHCPV6_REPLY
            /\ HasOption(ReplyOpts, DHCPV6_OPTION_RAPID_COMMIT) <=> rapidAsked
            /\ rapidAsked => OptionValue(ReplyOpts, DHCPV6_OPTION_RAPID_COMMIT) = <<>>

\* The failure taxonomy of the v6 builder: a request is refused exactly
\* when its type is unsupported (NotSupported) or it lacks CLIENTID or
\* IA_NA (InvalidFormat), and NotSupported takes precedence.
ErrorsAsSpecified ==
    stage = "answered" /\ reply.err # "Panic" =>
        reply.err = CASE Type6(req) \notin DOMAIN ReplyType                 -> "NotSupported"
                      [] ~HasOption(ReqOpts, DHCPV6_OPTION_CLIENTID)        -> "InvalidFormat"
                      [] ~HasOption(ReqOpts, DHCPV6_OPTION_IA_NA)           -> "InvalidFormat"
                      [] OTHER                                              -> ""

\* Request handling never aborts: no request, however formed, makes the
\* builder panic (spec section 7: no panics on attacker-controlled input).
NoPanic == reply.err # "Panic"
=============================================================================

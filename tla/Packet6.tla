------------------------------ MODULE Packet6 ------------------------------
(***************************************************************************)
(* The DHCPv6 packet model and option codec of pkg/util/dhcp/packet6.go.   *)
(* A packet is a sequence of bytes (naturals below 256), exactly as the Go *)
(* Packet ([]byte) is; an option is a record [code, value].  Everything    *)
(* here is a pure operator: the code keeps no state between calls.         *)
(*                                                                         *)
(* Fallible operations return a result record [err, val]; err = "" means  *)
(* success.  A read the Go code performs past the end of a slice is        *)
(* reported as the error "Panic" (index out of range).                     *)
(***************************************************************************)
EXTENDS Integers, Sequences, SequencesExt

\* DHCPv6 message types (packet6.go:64-78)
DHCPV6_SOLICIT == 1
DHCPV6_ADVERTISE == 2
DHCPV6_REQUEST == 3
DHCPV6_CONFIRM == 4
DHCPV6_RENEW == 5
DHCPV6_REBIND == 6
DHCPV6_REPLY == 7
DHCPV6_RELEASE == 8
DHCPV6_INFORMATION_REQUEST == 11
DHCPV6_RELAY_FORW == 12
DHCPV6_RELAY_REPL == 13

\* DHCPv6 option codes used by the code (packet6.go:82-118)
DHCPV6_OPTION_CLIENTID == 1
DHCPV6_OPTION_SERVERID == 2
DHCPV6_OPTION_IA_NA == 3
DHCPV6_OPTION_IAADDR == 5
DHCPV6_OPTION_ORO == 6
DHCPV6_OPTION_RELAY_MSG == 9
DHCPV6_OPTION_STATUS_CODE == 13
DHCPV6_OPTION_RAPID_COMMIT == 14
OPTION_DNS_SERVERS == 23
OPTION_SNTP_SERVERS == 31

Byte == 0..255

Ok(v) == [err |-> "", val |-> v]
Fail(e) == [err |-> e, val |-> <<>>]

\* binary.BigEndian.PutUint16(buf, uint16(n)): the conversion keeps 16 bits.
PutUint16(n) == << (n % 65536) \div 256, n % 256 >>

\* binary.BigEndian.PutUint32(buf, n) for an n already of type uint32.
PutUint32(n) == << (n \div 16777216) % 256, (n \div 65536) % 256,
                   (n \div 256) % 256, n % 256 >>

\* binary.BigEndian.Uint16 of the two bytes at positions i, i+1.
Uint16At(p, i) == p[i] * 256 + p[i + 1]

\* Packet.Type6 / IsRelayMsg: p[0] panics on an empty packet.
Type6(p) == p[1]
IsRelayMsg(p) == Type6(p) \in {DHCPV6_RELAY_FORW, DHCPV6_RELAY_REPL}

\* NewPacket6: a 4-byte header, msg-type then SetTID's low 24 bits of tid.
NewPacket6(opCode, tid) == <<opCode>> \o Tail(PutUint32(tid))

\* NewRelayPacket6: 34 zero bytes with msg-type RELAY-FORW.
NewRelayPacket6 == <<DHCPV6_RELAY_FORW>> \o [i \in 1..33 |-> 0]

\* optionToBytes / optionsToBytes: code and length as uint16, then value.
optionToBytes(o) == PutUint16(o.code) \o PutUint16(Len(o.value)) \o o.value
optionsToBytes(opts) == FlattenSeq([i \in DOMAIN opts |-> optionToBytes(opts[i])])

\* Offset (1-based) of the first option: 4 header bytes, 34 for relays.
OptionsStart(p) == IF IsRelayMsg(p) THEN 35 ELSE 5

(***************************************************************************)
(* GetOption6s: walk code/length/value records from the header to the end  *)
(* of the packet.  The Go loop reads p[i:i+4] and p[i+4:i+4+length]        *)
(* without checking that they lie inside the packet; such a read is a      *)
(* panic when the slice's capacity ends there, and a read of stale bytes   *)
(* otherwise.  OptionsOverrun tells the two apart from a well-formed walk.*)
(***************************************************************************)
RECURSIVE ParseOptionsFrom(_, _)
ParseOptionsFrom(p, i) ==
    IF i > Len(p) THEN <<>>
    ELSE LET length == Uint16At(p, i + 2)
         IN  << [code |-> Uint16At(p, i), value |-> SubSeq(p, i + 4, i + 3 + length)] >>
             \o ParseOptionsFrom(p, i + 4 + length)

RECURSIVE OverrunFrom(_, _)
OverrunFrom(p, i) ==
    IF i > Len(p) THEN FALSE
    ELSE \/ i + 3 > Len(p)
         \/ i + 3 + Uint16At(p, i + 2) > Len(p)
         \/ OverrunFrom(p, i + 4 + Uint16At(p, i + 2))

OptionsOverrun(p) == OverrunFrom(p, OptionsStart(p))

GetOption6s(p) == ParseOptionsFrom(p, OptionsStart(p))

\* The first option with the given code (the code's getOption closure and
\* the loops of TID6, ClientID and DecapDHCP6RelayMsg), 0 when absent.
FirstOption(opts, code) == SelectInSeq(opts, LAMBDA o : o.code = code)

HasOption(opts, code) == FirstOption(opts, code) # 0

OptionValue(opts, code) == opts[FirstOption(opts, code)].value

\* Mutant of TID6: the id read from the first header, relay envelopes
\* included, without descending into RELAY_MSG.
TID6OfHeader(p) ==
    IF Len(p) < 4 THEN Fail("InvalidFormat") ELSE Ok(p[2] * 65536 + p[3] * 256 + p[4])

\* TID6: the 24-bit id of a leaf message, or of the message nested in the
\* first RELAY_MSG option of a relay message, recursively.
RECURSIVE TID6(_)
TID6(p) ==
    IF ~IsRelayMsg(p)
    THEN IF Len(p) < 4 THEN Fail("InvalidFormat")
         ELSE Ok(p[2] * 65536 + p[3] * 256 + p[4])
    ELSE IF HasOption(GetOption6s(p), DHCPV6_OPTION_RELAY_MSG)
         THEN TID6(OptionValue(GetOption6s(p), DHCPV6_OPTION_RELAY_MSG))
         ELSE Fail("InvalidFormat")

\* ClientID: the CLIENTID option of the innermost leaf message.
RECURSIVE ClientID(_)
ClientID(p) ==
    LET opts == GetOption6s(p) IN
    IF ~IsRelayMsg(p)
    THEN IF HasOption(opts, DHCPV6_OPTION_CLIENTID)
         THEN Ok(OptionValue(opts, DHCPV6_OPTION_CLIENTID))
         ELSE Fail("InvalidFormat")
    ELSE IF HasOption(opts, DHCPV6_OPTION_RELAY_MSG)
         THEN ClientID(OptionValue(opts, DHCPV6_OPTION_RELAY_MSG))
         ELSE Fail("InvalidFormat")

\* EncapDHCP6RelayMsg: a RELAY-FORW header and one RELAY_MSG option
\* carrying the whole packet.
EncapDHCP6RelayMsg(pkt) ==
    NewRelayPacket6 \o optionsToBytes(<< [code |-> DHCPV6_OPTION_RELAY_MSG, value |-> pkt] >>)

\* Mutant of DecapDHCP6RelayMsg: the envelope itself instead of its payload.
DecapReturnsEnvelope(pkt) ==
    IF HasOption(GetOption6s(pkt), DHCPV6_OPTION_RELAY_MSG)
    THEN Ok(pkt) ELSE Fail("InvalidFormat")

\* DecapDHCP6RelayMsg: the value of the first top-level RELAY_MSG option.
DecapDHCP6RelayMsg(pkt) ==
    LET opts == GetOption6s(pkt) IN
    IF HasOption(opts, DHCPV6_OPTION_RELAY_MSG)
    THEN Ok(OptionValue(opts, DHCPV6_OPTION_RELAY_MSG))
    ELSE Fail("InvalidFormat")
=============================================================================

--------------------------- MODULE HcsoHealthCheck ---------------------------
(***************************************************************************)
(* The conversion of health-check HTTP codes between the region's form     *)
(* ("http_2xx,http_3xx") and the provider's ("200,300") in the HCSO        *)
(* load-balancer driver (cloudmux pkg/multicloud/hcso/                     *)
(* loadbalancer_backendgroup.go: ToHuaweiHealthCheckHttpCode,              *)
(* ToOnecloudHealthCheckHttpCode).  A string is the sequence of its        *)
(* one-character strings; the strings functions are modelled by what they *)
(* do on such sequences.                                                   *)
(***************************************************************************)
EXTENDS Integers, Sequences, SequencesExt

Str(s) == [i \in 1..Len(s) |-> SubSeq(s, i, i)]

\* strings.TrimLeft(s, cutset): drop leading characters that are in cutset.
RECURSIVE TrimLeft(_, _)
TrimLeft(s, cut) == IF s # <<>> /\ Head(s) \in cut THEN TrimLeft(Tail(s), cut) ELSE s

\* strings.TrimSpace (the only white space here is " ").
TrimSpace(s) == Reverse(TrimLeft(Reverse(TrimLeft(s, {" "})), {" "}))

\* strings.Split(s, sep) for a one-character sep; Split("", sep) is [""].
RECURSIVE Split(_, _)
Split(s, sep) ==
    IF \E i \in DOMAIN s : s[i] = sep
    THEN LET i == SelectInSeq(s, LAMBDA c : c = sep)
         IN <<SubSeq(s, 1, i - 1)>> \o Split(SubSeq(s, i + 1, Len(s)), sep)
    ELSE <<s>>

\* strings.Replace(s, old, new, -1): every non-overlapping old, from the left.
RECURSIVE Replace(_, _, _)
Replace(s, old, new) ==
    CASE Len(s) < Len(old)                -> s
      [] SubSeq(s, 1, Len(old)) = old     -> new \o Replace(SubSeq(s, Len(old) + 1, Len(s)), old, new)
      [] OTHER                            -> <<Head(s)>> \o Replace(Tail(s), old, new)

\* strings.Replace(s, old, new, 1): the first old only.
ReplaceFirst(s, old, new) ==
    IF \E i \in 1..(Len(s) - Len(old) + 1) : SubSeq(s, i, i + Len(old) - 1) = old
    THEN LET i == CHOOSE i \in 1..(Len(s) - Len(old) + 1) :
                    /\ SubSeq(s, i, i + Len(old) - 1) = old
                    /\ \A j \in 1..(i - 1) : SubSeq(s, j, j + Len(old) - 1) # old
         IN SubSeq(s, 1, i - 1) \o new \o SubSeq(s, i + Len(old), Len(s))
    ELSE s

\* strings.Join(segs, sep).
Join(segs, sep) ==
    IF segs = <<>> THEN <<>>
    ELSE FoldLeft(LAMBDA acc, x : acc \o sep \o x, Head(segs), Tail(segs))

\* Mutant of ToHuaweiHealthCheckHttpCode: only the first "xx" of a segment
\* is replaced.
ToHuaweiHealthCheckHttpCodeFirstOnly(c) ==
    LET segs == Split(TrimSpace(c), ",")
        conv(seg) == ReplaceFirst(TrimSpace(TrimLeft(seg, {"h", "t", "p", "_"})),
                                  Str("xx"), Str("00"))
    IN Join([i \in DOMAIN segs |-> conv(segs[i])], <<",">>)

\* ToHuaweiHealthCheckHttpCode: trim, split at ",", and per segment drop
\* the leading characters of the cutset "http_", trim, "xx" -> "00".
ToHuaweiHealthCheckHttpCode(c) ==
    LET segs == Split(TrimSpace(c), ",")
        conv(seg) == Replace(TrimSpace(TrimLeft(seg, {"h", "t", "p", "_"})),
                             Str("xx"), Str("00"))
    IN Join([i \in DOMAIN segs |-> conv(segs[i])], <<",">>)

\* ToOnecloudHealthCheckHttpCode: trim, split at ",", and per segment trim,
\* "00" -> "xx", prefix "http_".
ToOnecloudHealthCheckHttpCode(c) ==
    LET segs == Split(TrimSpace(c), ",")
        conv(seg) == Str("http_") \o Replace(TrimSpace(seg), Str("00"), Str("xx"))
    IN Join([i \in DOMAIN segs |-> conv(segs[i])], <<",">>)

\* GetHealthCheck: no health check when the group has no monitor id;
\* otherwise the monitor's type mapped to the region's (unknown types to
\* ""), and its expected codes converted.  A failed lookup is an error.
GetHealthCheck(monitorId, lookupOk, health) ==
    CASE monitorId = "" -> [err |-> "nil", check |-> "none"]
      [] ~lookupOk -> [err |-> "error"]
      [] OTHER -> [err |-> "nil",
                   check |-> [type |-> CASE health.type = "TCP"         -> "tcp"
                                         [] health.type = "UDP_CONNECT" -> "udp"
                                         [] health.type = "HTTP"        -> "http"
                                         [] OTHER                       -> "",
                              httpCode |-> ToOnecloudHealthCheckHttpCode(health.codes)]]
=============================================================================

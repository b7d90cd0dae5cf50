----------------------- MODULE ListenerRuleConditions -----------------------
(***************************************************************************)
(* ValidateListenerRuleConditions of pkg/compute/models/                    *)
(* loadbalancerlistenerrules.go, with validateListenerRuleCondition, the   *)
(* six parse...Condition functions and the two value-array parsers, as     *)
(* pure operators.                                                         *)
(*                                                                         *)
(* The JSON text is abstracted to its shape:                               *)
(*   NotJSON | NotArray | a sequence of conditions;                        *)
(*   a condition is NotDict or [field, config, name, values] where field   *)
(*   is a Kinds member, Missing or "other"; config says whether the        *)
(*   kind's ...Config key holds a dict; name is the HttpHeaderName         *)
(*   ("string" | "other" | Missing); values is Missing, NotArray or        *)
(*   a sequence of "string" | "dict" (with string key and value) |         *)
(*   "nokey" | "novalue" | "other".                                        *)
(* A result is "" (nil) or the name of the check that failed.              *)
(***************************************************************************)
EXTENDS Integers, Sequences, FiniteSets, SequencesExt

CONSTANTS
    NotJSON,    \* jsonutils.ParseString fails
    NotArray,   \* a JSON value of the wrong type where an array is read
    NotDict,    \* a condition that is not a JSON dict
    Missing     \* a key absent from its dict

Kinds == {"http-header", "path-pattern", "http-request-method", "host-header",
          "query-string", "source-ip"}

\* The initial limitations map.
Limits == [k \in Kinds \cup {"rules"} |->
             IF k \in {"rules", "http-header", "query-string"} THEN 5 ELSE 1]

\* parseConditionStringArrayValues / parseConditionDictArrayValues: every
\* element spends one of the "rules" budget before its own type is checked.
RECURSIVE parseArrayValues(_, _, _)
parseArrayValues(vs, wantDict, lim) ==
    IF vs = <<>> THEN [err |-> "", lim |-> lim]
    ELSE LET l == [lim EXCEPT !["rules"] = @ - 1]
             v == Head(vs)
         IN CASE l["rules"] < 0                   -> [err |-> "rules", lim |-> l]
              [] ~wantDict /\ v # "string"        -> [err |-> "value", lim |-> l]
              [] wantDict /\ v \notin {"dict", "nokey", "novalue"}
                                                  -> [err |-> "value", lim |-> l]
              [] wantDict /\ v = "nokey"          -> [err |-> "key", lim |-> l]
              [] wantDict /\ v = "novalue"        -> [err |-> "value", lim |-> l]
              [] OTHER -> parseArrayValues(Tail(vs), wantDict, l)

\* The common body of the six parse...Condition functions: spend one of
\* the kind's budget, read the kind's config map, (http-header: check
\* HttpHeaderName), then parse "values" (query-string: as dicts).
parseCondition(c, lim) ==
    LET l == [lim EXCEPT ![c.field] = @ - 1] IN
    CASE l[c.field] < 0                                -> [err |-> c.field, lim |-> l]
      [] ~c.config                                     -> [err |-> "config", lim |-> l]
      [] c.field = "http-header" /\ c.name = Missing -> [err |-> "name", lim |-> l]
      [] c.field = "http-header" /\ c.name # "string"  -> [err |-> "name", lim |-> l]
      [] c.values = Missing                          -> [err |-> "values", lim |-> l]
      [] c.values = NotArray                         -> [err |-> "values", lim |-> l]
      [] OTHER -> parseArrayValues(c.values, c.field = "query-string", l)

\* validateListenerRuleCondition: a dict with a known "field".
validateListenerRuleCondition(c, lim) ==
    CASE c = NotDict         -> [err |-> "dict", lim |-> lim]
      [] c.field = Missing   -> [err |-> "field", lim |-> lim]
      [] c.field \notin Kinds  -> [err |-> "field", lim |-> lim]
      [] OTHER                 -> parseCondition(c, lim)

\* One iteration of the loop of ValidateListenerRuleConditions: the first
\* error ends the loop.
ValidateStep(acc, c) ==
    IF acc.err # "" THEN acc ELSE validateListenerRuleCondition(c, acc.lim)

\* Mutant of ValidateListenerRuleConditions: the length check off by one.
ValidateListenerRuleConditionsLen6(condition) ==
    CASE condition = NotJSON   -> "format"
      [] condition = NotArray  -> "array"
      [] Len(condition) > 6      -> "length"
      [] OTHER -> FoldLeft(ValidateStep, [err |-> "", lim |-> Limits], condition).err

ValidateListenerRuleConditions(condition) ==
    CASE condition = NotJSON   -> "format"
      [] condition = NotArray  -> "array"
      [] Len(condition) > 5      -> "length"
      [] OTHER -> FoldLeft(ValidateStep, [err |-> "", lim |-> Limits], condition).err

-----------------------------------------------------------------------------
(* The rule the comment above ValidateListenerRuleConditions states, as a  *)
(* reference definition: at most 5 conditions and 5 values in total, at   *)
(* most one host-header, path-pattern, source-ip and http-request-method   *)
(* condition, and every condition and value well formed.                   *)

WellFormedValue(kind, v) ==
    IF kind = "query-string" THEN v = "dict" ELSE v = "string"

WellFormedCondition(c) ==
    /\ c # NotDict
    /\ c.field \in Kinds
    /\ c.config
    /\ c.field = "http-header" => c.name = "string"
    /\ c.values \notin {Missing, NotArray}
    /\ \A i \in DOMAIN c.values : WellFormedValue(c.field, c.values[i])

ConditionsAllowed(cs) ==
    /\ cs \notin {NotJSON, NotArray}
    /\ Len(cs) <= 5
    /\ \A i \in DOMAIN cs : WellFormedCondition(cs[i])
    /\ \A k \in Kinds \ {"http-header", "query-string"} :
           Cardinality({i \in DOMAIN cs : cs[i] # NotDict /\ cs[i].field = k}) <= 1
    /\ FoldLeft(LAMBDA n, c : n + Len(c.values), 0, cs) <= 5

=============================================================================

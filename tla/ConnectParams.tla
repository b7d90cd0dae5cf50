---------------------------- MODULE ConnectParams ----------------------------
(***************************************************************************)
(* SSession.GetConnectParams (pkg/webconsole/session/session.go): the      *)
(* query string a web console is opened with.  The caller's url.Values,    *)
(* after SDisplayInfo.populateParams (not in this tree, so its result is   *)
(* the input), get the API server, the session's access token, its         *)
(* protocol, the login need and, when configured, the referer whitelist;   *)
(* then Encode writes them.                                                *)
(*                                                                         *)
(* A url.Values is a function from keys to sequences of values; a value    *)
(* is a sequence of tokens (atoms, the "/" and "," separators), so that a  *)
(* URL can be taken apart again.  The API server's URL is [valid,          *)
(* schemeHost, path], path its strings.Split(_, "/") list; valid is FALSE  *)
(* when url.Parse fails.  Encode is the sequence of [key, value] pairs by  *)
(* key order, values in order (the escaping, "=" and "&" are left out).    *)
(***************************************************************************)
EXTENDS Integers, Sequences, SequencesExt, TLC

\* The keys in the order Encode sorts them.
KeyOrder == <<"access_token", "api_server", "is_need_login", "login_error_message",
              "other", "protocol", "referer_whitelist">>

\* url.Values.Set: the key's values replaced by the one value.
ValuesSet(p, k, v) == (k :> <<v>>) @@ p

\* url.Values.Encode: keys sorted, each value of a key in order.
Encode(p) ==
    FlattenSeq([i \in DOMAIN KeyOrder |->
        IF KeyOrder[i] \in DOMAIN p
        THEN [j \in DOMAIN p[KeyOrder[i]] |-> <<KeyOrder[i], p[KeyOrder[i]][j]>>]
        ELSE <<>>])

\* The elements of a list written with a separator between them.
JoinSep(s, sep) == FlattenSeq([i \in DOMAIN s |-> IF i = 1 THEN <<s[i]>> ELSE <<sep, s[i]>>])

\* filepath.Join: "" when every element is empty, otherwise Clean of the
\* elements from the first non-empty one: empty and "." elements go, a
\* ".." removes the element before it unless that is a ".." too (a
\* relative path keeps its leading ".."), and nothing left is ".".
FilepathJoin(elems) ==
    LET step(out, e) == CASE e \in {"", "."}                           -> out
                          [] e = ".." /\ out # <<>> /\ Last(out) # ".." -> Front(out)
                          [] OTHER                                     -> Append(out, e)
        clean == FoldLeft(step, <<>>, elems)
    IN CASE \A i \in DOMAIN elems : elems[i] = "" -> <<>>
         [] clean = <<>>                          -> <<".">>
         [] OTHER                                 -> clean

\* Mutant of TrimUrl: the joined path appended without its "/".
TrimUrlNoSlash(api) ==
    LET uPath == FilepathJoin(api.path)
    IN <<api.schemeHost>> \o (IF uPath = <<>> THEN <<>> ELSE JoinSep(uPath, "/"))

\* The API server written back: "<scheme>://<host>", then "/" and the
\* joined path segments unless the join is "".
TrimUrl(api) ==
    LET uPath == FilepathJoin(api.path)
    IN <<api.schemeHost>> \o (IF uPath = <<>> THEN <<>> ELSE <<"/">> \o JoinSep(uPath, "/"))

\* Mutant of SetParams: the access token added to the caller's values.
SetParamsAdd(params, apiServer, sess, whitelist) ==
    LET p1 == ValuesSet(params, "api_server", apiServer)
        p2 == IF "access_token" \in DOMAIN p1
              THEN [p1 EXCEPT !["access_token"] = Append(@, <<sess.token>>)]
              ELSE ValuesSet(p1, "access_token", <<sess.token>>)
        p3 == ValuesSet(p2, "protocol", <<sess.protocol>>)
        p4 == IF sess.loginErr THEN ValuesSet(p3, "login_error_message", <<"err">>) ELSE p3
        p5 == ValuesSet(p4, "is_need_login", <<IF sess.needLogin THEN "true" ELSE "false">>)
    IN IF whitelist # <<>> THEN ValuesSet(p5, "referer_whitelist", JoinSep(whitelist, ",")) ELSE p5

\* The Set calls, in order: api_server, access_token, protocol, the login
\* error when IsNeedLogin fails, is_need_login, and the referer whitelist
\* joined by "," when it is not empty.
SetParams(params, apiServer, sess, whitelist) ==
    LET p1 == ValuesSet(params, "api_server", apiServer)
        p2 == ValuesSet(p1, "access_token", <<sess.token>>)
        p3 == ValuesSet(p2, "protocol", <<sess.protocol>>)
        p4 == IF sess.loginErr THEN ValuesSet(p3, "login_error_message", <<"err">>) ELSE p3
        p5 == ValuesSet(p4, "is_need_login", <<IF sess.needLogin THEN "true" ELSE "false">>)
    IN IF whitelist # <<>> THEN ValuesSet(p5, "referer_whitelist", JoinSep(whitelist, ",")) ELSE p5

\* GetConnectParams: an unparsable API server is an error; otherwise the
\* encoded values.  (A nil params is an empty url.Values.)
GetConnectParams(params, api, sess, whitelist) ==
    IF ~api.valid
    THEN [err |-> "invalid api_server url", out |-> <<>>]
    ELSE [err |-> "nil", out |-> Encode(SetParams(params, TrimUrl(api), sess, whitelist))]
=============================================================================

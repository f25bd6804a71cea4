------------------------------ MODULE MCRules -------------------------------
(* Rules on every input of small sets: all sequences of the tokens that a   *)
(* rule looks at, up to a length, and a configuration with up to two keys   *)
(* away from their defaults.                                                *)
EXTENDS Rules

UpTo(n, S) == UNION {[1 .. k -> S] : k \in 0 .. n}

Line(name, value) == [name |-> name, value |-> value]

MCForbid == { <<".", "php">> }
MCListeners == <<"http", "grpc">>

RequestLines ==
  { Line(Host, ""), Line(Host, "h"), Line(<<"x", "-", "a">>, "v"), Line(<<"x", "-", "a">>, "w"),
    Line(<<"x", "_", "a">>, "u"), Line(<<"x", ".", "a">>, "t"), Line(<<"x", "mark", "a">>, "t"),
    Line(<<"cookie">>, "c"), Line(<<"cookie">>, "d"), Line(<<"authorization">>, "Basic"), Line(<<"authorization">>, "Bearer"),
    Line(ContentLength, 2), Line(ContentLength, 9) }
MCRequests ==
  [http11 : BOOLEAN, superglobals : {TRUE}, uri : {<<"/", "a">>, <<"/", "?", "a", "?">>, <<"*">>},
   lines : UpTo(3, RequestLines)]

PathTokens == {"a", "/", "\\", ":", ".", "sp", "~", "digit", "php", "PHP"}
MCPaths == {<<"/">> \o p : p \in UpTo(4, PathTokens)} \cup {None}

MCProbes ==
  [method : {"GET", "HEAD", "POST"}, path : {<<"/", "a">>, <<"/", "a", ".", "php">>},
   outcome : {"file", "failed"} \cup Misses, range : BOOLEAN, if_range : {"none", "e", "f"}, etag : {"e", "f"}]

HeadEntries ==
  { [name |-> ContentLength, values |-> <<1>>], [name |-> ContentLength, values |-> <<1, 1>>],
    [name |-> ContentLength, values |-> <<-1>>],
    [name |-> <<"connection">>, values |-> << {<<"x">>}, {<<"close">>, ContentLength} >>],
    [name |-> <<"x">>, values |-> <<0, 1>>], [name |-> <<"te">>, values |-> <<0>>],
    [name |-> <<"status">>, values |-> <<404, 0>>], [name |-> <<"status">>, values |-> <<204>>],
    [name |-> <<"bad">>, values |-> <<0>>] }
MCHeads ==
  {h \in [mode : {"classic", "php"}, method : {"GET", "HEAD"}, status : {0, 99, 101, 103, 200, 204, 304, 599, 600},
          table : UpTo(2, HeadEntries), body : 0 .. 2, streams : BOOLEAN] :
     h.mode = "classic" => ~ h.streams}

Pieces ==
  { <<"delim", "LF">>, <<"delim", "CR", "LF">>, <<"delim", "--">>, <<"delim", "sp", "LF">>,
    <<"delim", "--", "sp", "CR", "LF">>, <<"delim", "--", "x">>, <<"delim", "x">>, <<"x">>, <<"LF">>,
    <<"CR">>, <<"CR", "LF">> }
MCBodies == {FlattenSeq(s) : s \in UpTo(4, Pieces)}

Texts == UpTo(2, {"a", ";", "=", ",", "quote", "\\", "sp"})
MCDispositions == [name : Texts \ {<<>>}, filename : Texts \cup {None}]

Names == {<<"x">>, <<"X">>, <<"x", "-bin">>, <<"grpc-", "x">>, <<"te">>, <<"x", "!">>}
Values == {<<>>, <<"a">>, <<"sp", "a">>, <<"nul">>, <<"a", "comma">>}
MCAdds == UpTo(2, [name : Names, value : Values, binary : BOOLEAN])

ClientNames == {<<"x">>, <<"x", "-bin">>, <<"te">>, <<"x", "!">>}
ClientValues == UpTo(2, {"A", "D", "=", "comma", "sp", "nul"})
MCFieldLines == UpTo(2, [name : ClientNames, value : ClientValues])

Method(n, c, s) == [name |-> n, client |-> c, server |-> s]
Service(n) == [name |-> n, methods |-> <<Method("unary", FALSE, FALSE), Method("up", TRUE, FALSE),
                                         Method("down", FALSE, TRUE)>>]
MCSchemas ==
  { [files |-> <<[name |-> "one", imports |-> i, services |-> s],
                 [name |-> "two", imports |-> j, services |-> t]>>, configured |-> c] :
      i \in SUBSET {"two", "three"}, j \in SUBSET {"one"}, s \in UpTo(1, {Service("A"), Service("health")}),
      t \in UpTo(1, {Service("B"), Service("reflection")}),
      c \in {None} \cup (UpTo(2, {"A", "B", "C", "health"}) \ {<<>>}) }

MCTokenFiles == UpTo(2, UpTo(3, {"k", "=", "sp", "#"}))

-----------------------------------------------------------------------------
Pool0 == [processes |-> Absent, mode |-> "absent", entrypoint |-> "file"]
PoolWith(p) ==
  {[p EXCEPT !.processes = n] : n \in {0, 1, 3000, 4096, 4097}}
    \cup {[p EXCEPT !.mode = m] : m \in {"classic", "worker", "dispatcher"}}
    \cup {[p EXCEPT !.entrypoint = e] : e \in {"absent", "", "missing", "directory"}}

Uploads0 == [max_file_size_mb |-> Absent, max_field_size_kb |-> Absent, max_parts |-> Absent,
             max_part_headers |-> Absent, max_files |-> Absent, dir |-> "absent"]
UploadsWith(u) ==
  {[u EXCEPT !.max_file_size_mb = n] : n \in {0, 1, 1001}} \cup {[u EXCEPT !.max_field_size_kb = n] : n \in {0, 2001}}
    \cup {[u EXCEPT !.max_parts = 0], [u EXCEPT !.max_part_headers = 0], [u EXCEPT !.max_files = 0]}
    \cup {[u EXCEPT !.dir = "unwritable"]}

Listens == {"unix:", "no colon", "host:port", ":junk", ":port"}
Secs == {0, 1, 86400, 86401}

Http0 == [listen |-> "absent", max_body_size_mb |-> Absent, write_timeout_secs |-> Absent,
          keepalive_timeout_secs |-> Absent, uploads |-> <<>>, middleware |-> <<>>, static |-> <<>>,
          pool |-> Pool0]
HttpWith(h) ==
  {[h EXCEPT !.listen = l] : l \in Listens} \cup {[h EXCEPT !.max_body_size_mb = n] : n \in {0, 1, 1000, 1001}}
    \cup {[h EXCEPT !.write_timeout_secs = n] : n \in Secs} \cup {[h EXCEPT !.keepalive_timeout_secs = n] : n \in Secs}
    \cup {[h EXCEPT !.uploads = <<u>>] : u \in {Uploads0} \cup UploadsWith(Uploads0)}
    \cup {[h EXCEPT !.middleware = m] : m \in {<<"static">>, <<"static", "static">>, <<"other">>}}
    \cup {[h EXCEPT !.static = <<[root |-> r, forbid |-> f]>>] : r \in {"directory", "file", ""},
            f \in {<<>>, << <<".", "php">> >>, << <<".">> >>, << <<"php">> >>, << <<".", "a", "/">> >>}}
    \cup {[h EXCEPT !.pool = p] : p \in PoolWith(Pool0)}

Grpc0 == [listen |-> "absent", descriptor_set |-> "file", services |-> <<"A">>,
          default_timeout_secs |-> Absent, max_timeout_secs |-> Absent, keepalive_interval_secs |-> Absent,
          keepalive_timeout_secs |-> Absent, interceptors |-> <<>>, tokens_file |-> "absent", pool |-> Pool0]
GrpcWith(g) ==
  {[g EXCEPT !.listen = l] : l \in Listens} \cup {[g EXCEPT !.descriptor_set = d] : d \in {"absent", ""}}
    \cup {[g EXCEPT !.services = <<>>]} \cup {[g EXCEPT !.default_timeout_secs = n] : n \in Secs}
    \cup {[g EXCEPT !.max_timeout_secs = n] : n \in Secs} \cup {[g EXCEPT !.keepalive_interval_secs = n] : n \in Secs}
    \cup {[g EXCEPT !.keepalive_timeout_secs = n] : n \in Secs}
    \cup {[g EXCEPT !.interceptors = i] : i \in {<<"auth">>, <<"auth", "auth">>, <<"other">>}}
    \cup {[g EXCEPT !.tokens_file = t] : t \in {"", "file"}} \cup {[g EXCEPT !.pool = p] : p \in PoolWith(Pool0)}

Config0 == [http |-> <<Http0>>, grpc |-> <<Grpc0>>, observability |-> <<>>,
            supervisor |-> [process_control_timeout_secs |-> Absent], targets |-> <<>>]
Observer(l, s, m, p) == [listen |-> l, keepalive_timeout_secs |-> s, metrics |-> m, probes |-> p]
ConfigWith(c) ==
  {[c EXCEPT !.http = h] : h \in {<<>>} \cup {<<x>> : x \in HttpWith(Http0)}}
    \cup {[c EXCEPT !.grpc = g] : g \in {<<>>} \cup {<<x>> : x \in GrpcWith(Grpc0)}}
    \cup {[c EXCEPT !.observability = <<Observer(l, s, m, p)>>] : l \in {":port", "unix:"}, s \in {Absent, 0},
            m \in BOOLEAN, p \in BOOLEAN}
    \cup {[c EXCEPT !.supervisor.process_control_timeout_secs = n] : n \in Secs \cup 2 .. 11}
    \cup {[c EXCEPT !.targets = <<t>>] : t \in {<<>>, <<"a", ".", "a">>, <<".">>, <<"a", "=">>}}
MCConfigs ==
  UNION {ConfigWith(c) : c \in ConfigWith(Config0)}
    \cup UNION {{[Config0 EXCEPT !.http = <<h>>] : h \in HttpWith(h0)} : h0 \in HttpWith(Http0)}
    \cup UNION {{[Config0 EXCEPT !.grpc = <<g>>] : g \in GrpcWith(g0)} : g0 \in GrpcWith(Grpc0)}
=============================================================================

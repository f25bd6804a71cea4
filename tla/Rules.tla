-------------------------------- MODULE Rules -------------------------------
(***************************************************************************)
(* The decisions that keep no state (HttpRules, GrpcRules, Multipart,      *)
(* Settings), each on every input of a small set, beside the start of the  *)
(* server processes (Startup).  The two share nothing: an input is taken   *)
(* before any process has started, and nothing follows it.                 *)
(***************************************************************************)
EXTENDS HttpRules, GrpcRules, Multipart, Settings, Startup

CONSTANTS
  Requests,     \* [http11, superglobals, uri, lines]
  Paths,        \* decoded request paths, or None for one that is not UTF-8
  Probes,       \* requests of an existing path: [method, path, outcome, range, if_range, etag]
  Heads,        \* reply heads: [mode, method, status, table, body, streams]
  Bodies,       \* multipart bodies
  Dispositions, \* [name, filename] of a form's part
  Adds,         \* the metadata one call adds, in order: [name, value, binary]
  FieldLines,   \* the metadata lines of a client
  Schemas,      \* [files, configured]
  TokenFiles,   \* the lines of a tokens file
  Configs       \* the tables of a rapira.toml

\* What the parsers in front of the decisions hand over: texts, lines and tables
\* of the right shape.  A number that is not in the file is Absent.
Numbers(ns) == ns \subseteq Nat \cup {Absent}

ConfigInput(c) ==
  /\ Numbers({c.supervisor.process_control_timeout_secs})
  /\ c.http # <<>> =>
       LET http == c.http[1]
       IN /\ Numbers({http.max_body_size_mb, http.write_timeout_secs, http.pool.processes})
          /\ http.middleware \in Seq(STRING)
  /\ c.grpc # <<>> =>
       LET grpc == c.grpc[1]
       IN /\ Numbers({grpc.default_timeout_secs, grpc.max_timeout_secs, grpc.pool.processes})
          /\ grpc.interceptors \in Seq(STRING)

\* hyper gives a request its lines, and the decoding of a path a text or none.
RequestInput(r) ==
  /\ r.uri \in Seq(STRING)
  /\ r.lines \in Seq(ToSet(r.lines))
  /\ \A l \in ToSet(r.lines) : l.name \in Seq(STRING)

\* What TryCall() makes of a path is one of the outcomes that Serve() tells apart.
ProbeInput(p) == p.range \in BOOLEAN /\ p.outcome \in {"file", "failed"} \cup Misses

\* PHP hands over a status of any value, and an array of lists.
HeadInput(h) ==
  /\ h.status \in Int
  /\ h.table \in Seq(ToSet(h.table))
  /\ \A e \in ToSet(h.table) : e.values \in Seq(ToSet(e.values))

\* A value that PHP adds is any bytes, and every byte has a letter.
AddsInput(adds) ==
  /\ adds \in Seq(ToSet(adds))
  /\ \A a \in ToSet(adds) : a.name \in Seq(STRING) /\ a.value \in Seq(DOMAIN Letters)

\* hyper keeps no name that is empty, and each in lower case.
LinesInput(lines) ==
  /\ lines \in Seq(ToSet(lines))
  /\ \A l \in ToSet(lines) :
       l.name \in Seq(STRING) \ {<<>>} /\ "X" \notin ToSet(l.name) /\ l.value \in Seq(STRING)

\* A compiled set declares no name twice: no service in all its files, no
\* method in a service.
SchemaInput(s) ==
  LET files == s.files
  IN /\ files \in Seq(ToSet(files))
     /\ \A f \in ToSet(files) : f.services \in Seq(ToSet(f.services))
     /\ \A i, j \in DOMAIN files : \A a \in DOMAIN files[i].services, b \in DOMAIN files[j].services :
          files[i].services[a].name = files[j].services[b].name => i = j /\ a = b
     /\ \A f \in ToSet(files) : \A v \in ToSet(f.services) :
          \A m, n \in ToSet(v.methods) : m.name = n.name => m = n

\* The tokens "none" and "other" of the model stand for no character of a file.
TokensInput(lines) ==
  /\ lines \in Seq(Seq(STRING))
  /\ \A l \in ToSet(lines) : ToSet(l) \cap {"none", "other"} = {}

ASSUME RulesInputs ==
  /\ \A r \in Requests : RequestInput(r)
  /\ Paths \subseteq Seq(STRING)
  /\ \A p \in Probes : ProbeInput(p)
  /\ \A h \in Heads : HeadInput(h)
  /\ \A a \in Adds : AddsInput(a)
  /\ \A l \in FieldLines : LinesInput(l)
  /\ \A s \in Schemas : SchemaInput(s)
  /\ \A t \in TokenFiles : TokensInput(t)
  /\ \A c \in Configs : ConfigInput(c)

VARIABLE input \* what is decided on: [kind, of]

Nothing == [kind |-> "nothing", of |-> <<>>]

RulesInit == input = Nothing /\ StartupInit

Untouched ==
  /\ \A p \in Processes : stage[p] = "off"
  /\ \A a \in Addresses : bound[a] = "none"

Take(kind, of) ==
  /\ input' = [kind |-> kind, of |-> of]
  /\ UNCHANGED startup_vars

TakeRequest == \E r \in Requests : Take("request", r)
TakePath == \E p \in Paths : Take("path", p)
TakeProbe == \E p \in Probes : Take("probe", p)
TakeHead == \E h \in Heads : Take("head", h)
TakeBody == \E b \in Bodies : Take("body", b)
TakeDisposition == \E d \in Dispositions : Take("disposition", d)
TakeAdds == \E a \in Adds : Take("adds", a)
TakeLines == \E l \in FieldLines : Take("lines", l)
TakeSchema == \E s \in Schemas : Take("schema", s)
TakeTokens == \E t \in TokenFiles : Take("tokens", t)
TakeConfig == \E c \in Configs : Take("config", c)

StartupStep == input = Nothing /\ StartupNext /\ UNCHANGED input

TakeInput ==
  /\ input = Nothing /\ Untouched
  /\ \/ TakeRequest \/ TakePath \/ TakeProbe \/ TakeHead \/ TakeBody \/ TakeDisposition
     \/ TakeAdds \/ TakeLines \/ TakeSchema \/ TakeTokens \/ TakeConfig

RulesNext == TakeInput \/ StartupStep

RulesSpec == RulesInit /\ [][RulesNext]_<<input, startup_vars>>

-----------------------------------------------------------------------------
(* Properties.                                                             *)

\* No other name stands for a field or a file.  A CGI variable has the value of
\* one field, joined from all its lines, of which the Request object shows the
\* same; the length is that of the body; and no path that is served from disk
\* opens, by the rules of Windows, a file whose suffix is forbidden
\* (check.rs, callbacks.rs, middleware/static_files/src/lib.rs).
CgiNamesOneField(r) ==
  LET checked == CheckRequest(r.http11, r.lines, TRUE)
      vars == ServerVariables(r.uri, checked.lines, 7)
      lists == HeaderLists(checked.lines)
  IN checked.status = 200 =>
       /\ \A i \in DOMAIN lists :
            /\ vars[CgiHeaderName(lists[i].name)] = JoinedField(r.lines, lists[i].name)
            /\ lists[i].values = ValuesOf(r.lines, lists[i].name)
       /\ vars[<<"CONTENT_LENGTH">>] = <<7>>
       /\ vars[<<"DOCUMENT_URI">>] \o (IF "?" \in ToSet(r.uri) THEN <<"?">> ELSE <<>>)
            \o vars[<<"QUERY_STRING">>] = r.uri

AliasesRefused ==
  /\ input.kind = "request" => CgiNamesOneField(input.of)
  /\ input.kind = "path" => ~ (Eligible(input.of) /\ MayNameForbidden(input.of))

\* A reply head agrees with the bytes behind it: no field of the connection and
\* none that a Connection field names reaches the client, in the head or as a
\* trailer; a length is there at most once, never with a 204 or 304, and when a
\* body is complete, the length the client sees is that of the bytes hyper
\* sends.  So is the length that the write watermark waits for, unless the body
\* is chunked; but for a 101 that the script gave a length, and that goes out as
\* an empty 502, it is the script's (handler.rs, framed_length).  A file is
\* answered in part only for a GET whose validator is that of the file
\* (headers.rs, respond.rs, types.rs, response.rs, static_files/src/lib.rs).
Frame(h) ==
  IF h.mode = "classic"
  THEN ClassicHead(h.method, h.status, WalkHeadTable(h.table), h.body, FALSE)
  ELSE EmitHead(WriteHead(h.method, h.status, h.table), IF h.streams THEN NoLength ELSE h.body)

\* A 101 that the script gave a length, to a method other than HEAD.
ReplacedHead(h) == h.method # "HEAD" /\ Frame(h).status < 200 /\ Frame(h).length > 0

\* What the watermark waits for.
Awaited(h) ==
  IF ReplacedHead(h) THEN Frame(h).length
  ELSE IF Frame(h).bodiless THEN 0
  ELSE IF Frame(h).length = NoLength THEN NoLength ELSE h.body

IsFramed(h) ==
  LET frame == Frame(h)
      wire == ServePhp(frame)
      names == {l.name : l \in ToSet(wire.lines)}
      lengths == ValuesOf(wire.lines, ContentLength)
      seen == ValuesOf(HyperLines(h.method, wire), ContentLength)
      bytes == IF frame.bodiless THEN 0 ELSE h.body
      complete == frame.bodiless \/ frame.length \in {NoLength, bytes}
      passed == UNION ToSet(ValuesOf(frame.lines, <<"connection">>))
  IN /\ names \cap ((HopByHop \cup passed) \ {ContentLength}) = {}
     /\ \A n \in HopByHop : ~ TrailerAllowed(n)
     /\ Len(lengths) <= 1 /\ (wire.status \in {204, 304} => lengths = <<>>)
     /\ wire.status \in 200 .. 599
     /\ complete => FramedLength(h.method, wire) = Awaited(h)
     /\ complete /\ seen # <<>> /\ h.method # "HEAD" => seen[1] = bytes

HeadIsFramed ==
  /\ input.kind = "head" => IsFramed(input.of)
  /\ input.kind = "probe" =>
       LET p == input.of
       IN Serve(p) = "part" => p.method = "GET" /\ p.range /\ p.if_range \in {"none", p.etag}

\* A form arrives as the client composed it: the parts of a body are what stands
\* between its delimiter lines, to the byte, and the names and the boundary are
\* what was quoted (multipart.rs).
PartsRoundTrip ==
  /\ input.kind = "body" => Parts(input.of) = PartsByLines(input.of)
  /\ input.kind = "disposition" =>
       /\ DispositionParams(Composed(input.of.name, input.of.filename)) = input.of
       /\ LET type(b) == <<"multipart/form-data", ";", "sp", "boundary", "=">> \o b
              plain == ToSet(input.of.name) \cap {"quote", ";", ",", "\\", "sp"} = {}
          IN /\ plain => Boundary(type(input.of.name)) = input.of.name
             /\ ToSet(input.of.name) \cap {"quote", ";", "\\"} = {} =>
                  Boundary(type(<<"quote">> \o input.of.name \o <<"quote">>)) = input.of.name

\* Metadata survives the wire: what a call has added comes back from the lines
\* it sends, with the edge spaces of a text gone, also when a proxy has joined
\* the lines of a binary field; and what PHP is shown of any client's lines
\* is what its Metadata class accepts (php/call.rs, php/values.rs).
JoinedLines(lines) ==
  LET rest(n) == Tail(ValuesOf(lines, n))
      joined(n) == ValuesOf(lines, n)[1] \o FlattenSeq([i \in DOMAIN rest(n) |-> <<"comma", "sp">> \o rest(n)[i]])
      of(n) == IF IsBinary(n) THEN << [name |-> n, value |-> joined(n)] >>
               ELSE Kept(lines, {i \in DOMAIN lines : lines[i].name = n})
  IN FlattenSeq([i \in DOMAIN Keys(lines) |-> of(Keys(lines)[i])])

MetadataRoundTrips ==
  /\ input.kind = "adds" =>
       LET fields == Collected(input.of)
           trim(f) == IF IsBinary(f.name) THEN f.values
                      ELSE [v \in DOMAIN f.values |-> Trim(f.values[v], {"sp"})]
           sent == [i \in DOMAIN fields |-> [name |-> fields[i].name, values |-> trim(fields[i])]]
       IN /\ ContextMetadata(Wire(fields)) = sent
          /\ ContextMetadata(JoinedLines(Wire(fields))) = sent
          /\ MetadataValid(sent)
  /\ input.kind = "lines" => MetadataValid(ContextMetadata(input.of))

\* What the start accepts can be served.  The drain ends before the forced exit
\* and has time, the sizes fit, every table that is there is listed, a call's
\* default deadline is within its maximum, and the interpreters have slots; a
\* schema lists a service, routes unary methods of listed services only and
\* none that the plugin answers itself, and serves no dependency unasked; and
\* every line of a tokens file that is one opens the server, alone, and no
\* other value does (config.rs of each crate, schema.rs, auth/src/lib.rs).
ConfigIsUsable(config) ==
  LET secs == ControlTimeout(config.supervisor)
      slots(table) == IF table = <<>> THEN 0 ELSE Or(table[1].pool.processes, Parallelism)
  IN /\ DrainGrace(secs) \in 1 .. 2 * secs - 1
     /\ slots(config.http) + slots(config.grpc) \in 1 .. MaxSlots
     /\ config.http # <<>> =>
          LET http == Http(config.http[1])
          IN /\ http.max_body_size \in 1 .. UsizeMax
             /\ http.write_timeout \in 1 .. MaxTimeout
             /\ http.static <=> Contains(config.http[1].middleware, "static")
             /\ config.http[1].uploads # <<>> => http.uploads /\ ~ http.superglobals
     /\ config.grpc # <<>> =>
          LET grpc == config.grpc[1]
          IN /\ grpc.max_timeout_secs # Absent => grpc.default_timeout_secs <= grpc.max_timeout_secs
             /\ Given(grpc.tokens_file) <=> Contains(grpc.interceptors, "auth")

SchemaIsUsable(s) ==
  LET schema == Load(s.files, s.configured)
      listed == {v.name : v \in ToSet(schema.services)}
      streaming(v) == {m \in ToSet(v.methods) : m.client \/ m.server}
      streams == UNION {{<<v.name, m.name>> : m \in streaming(v)} : v \in ToSet(schema.services)}
      dependencies == {v.name : v \in UNION {ToSet(s.files[i].services) : i \in
                        {j \in DOMAIN s.files : \E k \in DOMAIN s.files : s.files[j].name \in s.files[k].imports}}}
  IN schema.ok =>
       /\ schema.services # <<>> /\ IsInjective(schema.services)
       /\ {r[1] : r \in schema.routes} \subseteq listed \ PluginServices
       /\ schema.routes \cap streams = {}
       /\ s.configured = None => listed \cap dependencies = {}

TokensAreUsable(lines) ==
  LET tokens == ParseTokens(lines)
      header(v) == [name |-> <<"authorization">>, value |-> v]
      bearer(t) == header(<<"Bearer", "sp">> \o t)
  IN tokens # None =>
       \A t \in ToSet(tokens) :
         /\ LetIn(tokens, "app", <<bearer(t)>>)
         /\ ~ LetIn(tokens, "app", <<bearer(t), bearer(t)>>)
         /\ ~ LetIn(tokens, "app", <<header(t)>>)
         /\ ~ LetIn(tokens, "app", <<bearer(t \o <<"other">>)>>)

AcceptedIsUsable ==
  /\ input.kind = "config" /\ Starts(input.of) => ConfigIsUsable(input.of)
  /\ input.kind = "schema" => SchemaIsUsable(input.of)
  /\ input.kind = "tokens" => TokensAreUsable(input.of)
=============================================================================

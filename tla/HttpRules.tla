----------------------------- MODULE HttpRules ------------------------------
(***************************************************************************)
(* The decisions of the HTTP plugin about one request or one reply head:   *)
(* the checks before dispatch (check.rs), the two views PHP gets of a      *)
(* request (the CGI variables of callbacks.rs and types.rs, the Request    *)
(* object of php/request.rs), the static files in front of PHP             *)
(* (middleware/static_files), and the way of a reply head from writeHead() *)
(* or header() to the wire (php/headers.rs, php/respond.rs, types.rs,      *)
(* handler.rs, response.rs).                                               *)
(*                                                                         *)
(* A field name is a sequence of tokens in lower case, as hyper keeps it;  *)
(* a header map is the sequence of its lines [name, value].                *)
(***************************************************************************)
EXTENDS Tokens

\* Config::max_body_size, and the static files' forbidden suffixes, lowercased.
CONSTANTS MaxBody, Forbid

Rejection(status) == [status |-> status, authority |-> "", lines |-> <<>>]

-----------------------------------------------------------------------------
(* check.rs.  A Broken... operator stands for one plausible bug of the     *)
(* operator after it.                                                      *)

Host == <<"host">>
ContentLength == <<"content-length">>

BrokenSafeFieldName(name) == "_" \notin ToSet(name)

\* Tokens of a field name that are no letter, digit or hyphen; mark is any
\* other than the first two.
Marks == {"_", ".", "mark"}

SafeFieldName(name) == ToSet(name) \cap Marks = {}

\* check_request(); an empty authority counts as missing.
CheckRequest(http11, lines, superglobals) ==
  LET hosts == ValuesOf(lines, Host)
      kept == IF superglobals THEN Kept(lines, {i \in DOMAIN lines : SafeFieldName(lines[i].name)}) ELSE lines
      declared == ValuesOf(kept, ContentLength)
      authority == IF hosts = <<>> THEN "" ELSE hosts[1]
  IN IF Len(hosts) > 1 \/ (http11 /\ authority = "") THEN Rejection(400)
     ELSE IF declared # <<>> /\ declared[1] \in Nat /\ declared[1] > MaxBody THEN Rejection(413)
     ELSE [status |-> 200, authority |-> authority, lines |-> kept]

-----------------------------------------------------------------------------
(* The two views of a request.                                             *)

Singletons ==
  { <<"authorization">>, <<"proxy-authorization">>, <<"content-type">>, ContentLength,
    <<"referer">>, <<"from">> }

FieldLineSeparator(name) == IF name = <<"cookie">> THEN "; " ELSE ", "

\* joined_field(): the one value of a name, as the texts and separators in it.
JoinedField(lines, name) ==
  LET values == ValuesOf(lines, name)
      rest == [i \in DOMAIN Tail(values) |-> <<FieldLineSeparator(name), Tail(values)[i]>>]
  IN <<values[1]>> \o IF name \in Singletons THEN <<>> ELSE FlattenSeq(rest)

CgiHeaderName(name) ==
  <<"HTTP_">> \o [i \in DOMAIN name |-> IF name[i] \in {"-", "."} THEN "_" ELSE name[i]]

\* cgi_header_vars(): a later put() of a name replaces an earlier one.
CgiHeaderVars(lines, length) ==
  LET keys == Keys(lines)
      puts(var) == {i \in DOMAIN keys : CgiHeaderName(keys[i]) = var}
      fields == {CgiHeaderName(keys[i]) : i \in DOMAIN keys}
  IN [var \in fields \cup {<<"CONTENT_LENGTH">>} |->
        IF var \in fields THEN JoinedField(lines, keys[Max(puts(var))]) ELSE <<length>>]

\* ReqC::build() and register_server_variables(), as far as they look into the
\* request.  A text that is not there is registered empty, save for the type.
ServerVariables(uri, lines, length) ==
  LET mark == Find(uri, {"?"}, 1)
      first(name) == IF ValuesOf(lines, name) = <<>> THEN <<>> ELSE <<ValuesOf(lines, name)[1]>>
      own == [REQUEST_URI |-> uri,
              DOCUMENT_URI |-> SubSeq(uri, 1, mark - 1),
              QUERY_STRING |-> SubSeq(uri, mark + 1, Len(uri)),
              CONTENT_TYPE |-> first(<<"content-type">>),
              AUTH_TYPE |-> first(<<"authorization">>)]
      cgi == CgiHeaderVars(lines, length)
      named == {n \in DOMAIN own : n = "CONTENT_TYPE" => own[n] # <<>>}
  IN [var \in DOMAIN cgi \cup {<<n>> : n \in named} |->
        IF var \in DOMAIN cgi THEN cgi[var] ELSE own[var[1]]]

\* emit_header_map(): every name with its values in the order of their lines.
HeaderLists(lines) == [i \in DOMAIN Keys(lines) |->
                         [name |-> Keys(lines)[i], values |-> ValuesOf(lines, Keys(lines)[i])]]

-----------------------------------------------------------------------------
(* middleware/static_files/src/lib.rs, on the percent-decoded path.        *)

Lower(text) == [i \in DOMAIN text |-> IF text[i] = "PHP" THEN "php" ELSE text[i]]

\* The name that is compared with the forbidden suffixes.
ServedName(path) ==
  LET segments == Split(path, "/")
      named == {i \in DOMAIN segments : segments[i] # <<>>}
  IN IF named = {} THEN <<>> ELSE Lower(TrimEnd(segments[Max(named)], {".", "sp"}))

Eligible(path) ==
  /\ path # None
  /\ ToSet(path) \cap {"\\", ":"} = {}
  /\ \A s \in ToSet(Split(path, "/")) :
       /\ At(s, 1) # "."
       /\ \A i \in DOMAIN s : ~ (s[i] = "~" /\ At(s, i + 1) = "digit")
  /\ \A suffix \in Forbid : ~ IsSuffix(suffix, ServedName(path))

Misses == {"missing", "denied", "directory", "bad name"}

\* ServeDir::try_call(): a range that the file has is answered in part.
TryCall(outcome, range) ==
  IF outcome = "file" THEN IF range THEN "part" ELSE "whole" ELSE outcome

\* StaticFiles::serve(): what answers the request.
Serve(req) ==
  LET range == req.range /\ req.method # "HEAD"
      probe == TryCall(req.outcome, range)
      served == IF probe = "part" /\ req.if_range \notin {"none", req.etag}
                THEN TryCall(req.outcome, FALSE) ELSE probe
  IN IF req.method \notin {"GET", "HEAD"} \/ ~ Eligible(req.path) \/ served \in Misses THEN "php"
     ELSE IF served = "failed" THEN "500" ELSE served

-----------------------------------------------------------------------------
(* The head of a reply.  A head frame is [status, lines, length, bodiless],*)
(* length a number or NoLength.                                            *)

NoLength == -1

HopByHop ==
  { ContentLength, <<"transfer-encoding">>, <<"connection">>, <<"keep-alive">>, <<"upgrade">>,
    <<"trailer">>, <<"te">>, <<"proxy-connection">> }

TrailerForbidden ==
  { <<n>> : n \in { "age", "authorization", "cache-control", "connection", "content-encoding",
      "content-language", "content-length", "content-location", "content-range", "content-type",
      "cookie", "date", "expect", "expires", "forwarded", "host", "if-match", "if-modified-since",
      "if-none-match", "if-range", "if-unmodified-since", "keep-alive", "location", "max-forwards",
      "pragma", "proxy-authenticate", "proxy-authorization", "proxy-connection", "range",
      "retry-after", "set-cookie", "te", "trailer", "transfer-encoding", "upgrade", "vary", "via",
      "warning", "www-authenticate" } }

Without(lines, names) == Kept(lines, {i \in DOMAIN lines : lines[i].name \notin names})

\* writeTrailers() takes these and drops them: HTTP/1.1 from PHP has no trailers.
TrailerAllowed(name) == name \notin TrailerForbidden

\* walk_head_table() refuses a name that is no token and a value that is not text,
Representable(table) == <<"bad">> \notin {table[i].name : i \in DOMAIN table}

\* and makes lines of the array of lists.
WalkHeadTable(table) ==
  FlattenSeq([i \in DOMAIN table |->
         [j \in DOMAIN table[i].values |-> [name |-> table[i].name, value |-> table[i].values[j]]]])

Written(ok, status, lines, declared, bodiless) ==
  [ok |-> ok, status |-> status, lines |-> lines, declared |-> declared, bodiless |-> bodiless]

\* rapira_rs_exchange_write_head(), write_head_core() and split_framing() on a
\* unit that is open: a refused or an interim head leaves it as it was.
WriteHead(method, status, table) ==
  LET lines == WalkHeadTable(table)
      lengths == ValuesOf(lines, ContentLength)
      open(ok) == Written(ok, 200, <<>>, NoLength, method = "HEAD")
  IN IF status \notin 100 .. 599 \/ ~ Representable(table) THEN open(FALSE)
     ELSE IF status # 101 /\ status \in 100 .. 199 THEN open(TRUE)
     ELSE IF Len(lengths) > 1 THEN open(FALSE)
     ELSE Written(TRUE, status, Without(lines, {ContentLength}),
                  IF lengths # <<>> /\ lengths[1] \in Nat THEN lengths[1] ELSE NoLength,
                  method = "HEAD" \/ status \in {204, 304, 101})

\* emit_head(), for a body that ends with this call or, without a length, streams on.
EmitHead(st, finalizing) ==
  [status |-> st.status, lines |-> st.lines, bodiless |-> st.bodiless,
   length |-> IF st.declared = NoLength /\ ~ st.bodiless THEN finalizing ELSE st.declared]

\* head_status(), Context::commit_head() and Context::finish().
ClassicHead(method, code, lines, body, truncated) ==
  LET Status == <<"status">>
      values == ValuesOf(lines, Status)
      codes == {i \in DOMAIN values : values[i] \in 100 .. 599}
      clamped == IF code = 0 THEN 200 ELSE Max({100, Min({code, 599})})
      status == IF codes = {} THEN clamped ELSE values[Max(codes)]
      no_content == status \in {204, 304} \cup (100 .. 199)
      own == ValuesOf(lines, ContentLength)
      length == IF no_content \/ (method # "HEAD" /\ truncated) THEN NoLength
                ELSE IF method # "HEAD" THEN body
                ELSE IF own # <<>> /\ own[1] \in Nat THEN own[1] ELSE NoLength
  IN [status |-> status, lines |-> Without(lines, {Status}), length |-> length,
      bodiless |-> no_content \/ method = "HEAD"]

BrokenResponseHeaders(lines, length) ==
  Without(lines, HopByHop) \o IF length = NoLength THEN <<>> ELSE <<[name |-> ContentLength, value |-> length]>>

\* response_headers(); the value of a connection field is the set of names in it.
ResponseHeaders(lines, length) ==
  LET named == UNION ToSet(ValuesOf(lines, <<"connection">>))
  IN Without(lines, HopByHop \cup named)
       \o IF length = NoLength THEN <<>> ELSE <<[name |-> ContentLength, value |-> length]>>

\* serve_php(), from the head frame on: the head that hyper is given.
ServePhp(head) ==
  LET status == IF head.status >= 200 THEN head.status ELSE 502
  IN [status |-> status,
      lines |-> ResponseHeaders(head.lines, IF status \in {204, 304} THEN NoLength ELSE head.length),
      empty |-> head.bodiless]

\* framed_length(): NoLength is a chunked body.
FramedLength(method, response) ==
  LET lengths == ValuesOf(response.lines, ContentLength)
  IN IF method = "HEAD" \/ response.status \in {204, 304} \cup (100 .. 199) THEN 0
     ELSE IF lengths # <<>> THEN lengths[1]
     ELSE IF response.empty THEN 0 ELSE NoLength

\* hyper: a body that has ended takes its content-length with it, save for HEAD.
HyperLines(method, response) ==
  IF response.empty /\ method # "HEAD" THEN Without(response.lines, {ContentLength})
  ELSE response.lines

-----------------------------------------------------------------------------
(* Reference definitions.                                                  *)

\* The file name that Windows opens for a path: either separator, a stream
\* after a colon, no dots and spaces at the end, letters of any case.
WindowsName(path) ==
  LET slashes == [i \in DOMAIN path |-> IF path[i] = "\\" THEN "/" ELSE path[i]]
      segments == Split(slashes, "/")
      named == {i \in DOMAIN segments : segments[i] # <<>>}
      file == IF named = {} THEN <<>> ELSE Split(segments[Max(named)], ":")[1]
  IN Lower(TrimEnd(file, {".", "sp"}))

\* A short name, which may stand for any file of the directory.
ShortName(path) == \E i \in DOMAIN path : path[i] = "~" /\ At(path, i + 1) = "digit"

\* The file is one that the middleware must not serve.
MayNameForbidden(path) ==
  \/ ShortName(path)
  \/ \E suffix \in Forbid : IsSuffix(suffix, WindowsName(path))
=============================================================================

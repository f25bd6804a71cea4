------------------------------ MODULE GrpcRules -----------------------------
(***************************************************************************)
(* The decisions of the gRPC plugin that keep no state: which metadata     *)
(* passes in either direction (php/call.rs, php/values.rs), which methods  *)
(* of a descriptor set are routed to PHP (schema.rs), and which calls the  *)
(* token interceptor lets in (interceptors/auth).                          *)
(*                                                                         *)
(* A metadata name is a sequence of tokens in lower case, of which the     *)
(* transport's prefixes and the suffix "-bin" are one token each; a value  *)
(* is a sequence of bytes, of which "nul" is not printable.                *)
(***************************************************************************)
EXTENDS Tokens

-----------------------------------------------------------------------------
(* Metadata.  A Broken... operator stands for one plausible bug of the     *)
(* operator after it.                                                      *)

Reserved(name) ==
  \/ At(name, 1) \in {"grpc-", "connect-", "content-", "trailer-"}
  \/ name \in {<<"te">>, <<"trailer">>, <<"connection">>, <<"keep-alive">>, <<"proxy-connection">>,
               <<"transfer-encoding">>, <<"upgrade">>, <<"host">>, <<"accept-encoding">>}

Printable(value) == "nul" \notin ToSet(value)
IsBinary(name) == name # <<>> /\ Last(name) = "-bin"

\* Base64, as far as it matters here: one letter for each byte, none of them
\* a separator, with padding that a decoder may find or not.
Letters == [a |-> "A", sp |-> "B", nul |-> "C", comma |-> "D"]
Encode(bytes) == [i \in DOMAIN bytes |-> Letters[bytes[i]]]
Decode(text) ==
  LET letters == TrimEnd(text, {"="})
      byte(l) == CHOOSE b \in DOMAIN Letters : Letters[b] = l
  IN IF \E i \in DOMAIN letters : \A b \in DOMAIN Letters : Letters[b] # letters[i] THEN None
     ELSE [i \in DOMAIN letters |-> byte(letters[i])]

\* The pieces that a decoder takes.
WithoutNone(values) == Kept(values, {i \in DOMAIN values : values[i] # None})

BrokenContextValues(name, value) ==
  IF IsBinary(name) THEN WithoutNone(<<Decode(Trim(value, {"sp"}))>>)
  ELSE IF Printable(value) THEN <<value>> ELSE <<>>

\* The values of one field line: a text, or the pieces of a binary list.
ContextValues(name, value) ==
  IF IsBinary(name)
  THEN LET pieces == Split(value, "comma")
       IN WithoutNone([i \in DOMAIN pieces |-> Decode(Trim(pieces[i], {"sp"}))])
  ELSE IF Printable(value) THEN <<value>> ELSE <<>>

\* context_metadata(): the fields that PHP reads, each with its values.
ContextMetadata(lines) ==
  LET field(name) ==
        [name |-> name,
         values |-> FlattenSeq([i \in DOMAIN ValuesOf(lines, name) |->
                                  ContextValues(name, ValuesOf(lines, name)[i])])]
      keys == Keys(lines)
      fields == [i \in DOMAIN keys |-> field(keys[i])]
  IN Kept(fields, {i \in DOMAIN keys : ~ Reserved(keys[i]) /\ fields[i].values # <<>>})

\* wire(): the lines of the fields a call has collected.
Wire(fields) ==
  FlattenSeq([f \in DOMAIN fields |-> [v \in DOMAIN fields[f].values |->
    [name |-> fields[f].name,
     value |-> IF IsBinary(fields[f].name) THEN Encode(fields[f].values[v])
               ELSE Trim(fields[f].values[v], {"sp"})]]])

\* HeaderName::from_bytes() and the gRPC name set.
Lowered(name) == [i \in DOMAIN name |-> IF name[i] = "X" THEN "x" ELSE name[i]]
GrpcName(name) == name # <<>> /\ ToSet(name) \cap {"!", "("} = {}

\* add_core() on one half of a call that PHP still has; a refused field
\* changes nothing.
AddCore(fields, add) ==
  LET name == Lowered(add.name)
      at == {i \in DOMAIN fields : fields[i].name = name}
  IN IF \/ ~ GrpcName(name) \/ Reserved(name) \/ add.binary # IsBinary(name)
        \/ ~ (add.binary \/ Printable(add.value)) THEN fields
     ELSE IF at = {} THEN Append(fields, [name |-> name, values |-> <<add.value>>])
     ELSE [fields EXCEPT ![Min(at)].values = Append(@, add.value)]

\* The fields of a call after its calls of add().
Collected(adds) ==
  LET after[n \in 0 .. Len(adds)] == IF n = 0 THEN <<>> ELSE AddCore(after[n - 1], adds[n])
  IN after[Len(adds)]

\* metadata_valid(): what the constructor of Metadata accepts.
MetadataValid(fields) ==
  \A f \in ToSet(fields) :
    /\ f.name # <<>> /\ "X" \notin ToSet(f.name)
    /\ IsBinary(f.name) \/ \A v \in ToSet(f.values) : Printable(v)

-----------------------------------------------------------------------------
(* The descriptor set.  A set is a sequence of files [name, imports,       *)
(* services], a service [name, methods], a method [name, client, server],  *)
(* the last two telling which side streams.                                *)

PluginServices == {"health", "reflection", "reflection alpha"}

AllServices(files) == FlattenSeq([i \in DOMAIN files |-> files[i].services])

\* The files that another file of the set imports.
Imported(files) == UNION {files[i].imports : i \in DOMAIN files}

\* The services that are served: none of them when the set is refused.  The
\* configuration refuses an empty list of names before.
Selected(files, configured) ==
  LET services == AllServices(files)
      byName(n) == {i \in DOMAIN services : services[i].name = n}
      names == IF configured = None THEN <<>> ELSE configured
      own == AllServices(Kept(files, {i \in DOMAIN files : files[i].name \notin Imported(files)}))
      free == Kept(own, {i \in DOMAIN own : own[i].name \notin PluginServices})
  IN IF Imported(files) \ {files[i].name : i \in DOMAIN files} # {} THEN <<>>
     ELSE IF configured = None THEN free
     ELSE IF \/ ToSet(names) \cap PluginServices # {}
             \/ \E n \in ToSet(names) : byName(n) = {}
             \/ ~ IsInjective(names) THEN <<>>
     ELSE [i \in DOMAIN names |-> services[Min(byName(names[i]))]]

\* Schema::load() and service_info(): the listing, and the routes to PHP.
Load(files, configured) ==
  LET selected == Selected(files, configured)
      unary(s) == {m \in ToSet(s.methods) : ~ m.client /\ ~ m.server}
  IN IF selected = <<>> THEN [ok |-> FALSE, services |-> <<>>, routes |-> {}]
     ELSE [ok |-> TRUE, services |-> selected,
           routes |-> UNION {{<<s.name, m.name>> : m \in unary(s)} : s \in ToSet(selected)}]

-----------------------------------------------------------------------------
(* interceptors/auth.  A header value and a token are sequences of tokens. *)

\* bearer_token(): the scheme in any case, then one space or more.
BearerToken(value) ==
  LET rest == Skip(value, {"sp"}, 2)
  IN IF At(value, 1) \in {"Bearer", "bearer"} /\ rest > 2 THEN SubSeq(value, rest, Len(value)) ELSE None

\* is_b64token(): a body of letters, then "=" only.
IsB64Token(line) ==
  LET body == TrimEnd(line, {"="}) IN body # <<>> /\ ToSet(body) \cap {"=", "sp", "#"} = {}

\* parse(): the tokens of a file, or None.
ParseTokens(lines) ==
  LET trimmed == [i \in DOMAIN lines |-> Trim(lines[i], {"sp"})]
      tokens == Kept(trimmed, {i \in DOMAIN trimmed : trimmed[i] # <<>> /\ trimmed[i][1] # "#"})
  IN IF tokens = <<>> \/ \E t \in ToSet(tokens) : ~ IsB64Token(t) THEN None ELSE tokens

\* Auth::accepts() and intercept_head(): a health check needs no token.
LetIn(tokens, service, lines) ==
  LET values == ValuesOf(lines, <<"authorization">>)
  IN \/ service = "health"
     \/ Len(values) = 1 /\ BearerToken(values[1]) \in ToSet(tokens)
=============================================================================

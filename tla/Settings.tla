------------------------------ MODULE Settings ------------------------------
(***************************************************************************)
(* What the resolvers of rapira.toml accept and what they make of it: the  *)
(* tables [http], [grpc], [observability], [supervisor] and [log]          *)
(* (src/settings.rs, crates/config, the config.rs of the plugins and       *)
(* middleware), and the checks of main() on the whole.  Files are what the *)
(* boot checks find at a path: "file", "directory" or "missing".           *)
(***************************************************************************)
EXTENDS Tokens

CONSTANTS
  Mega,        \* 1024 * 1024, the unit of the _mb keys
  Kilo,        \* 1024
  UsizeMax,    \* the largest usize (and u64: the build is 64-bit)
  Parallelism  \* what available_parallelism() returns

ASSUME SettingsConstants == {Mega, Kilo, UsizeMax, Parallelism} \subseteq Nat \ {0}

Absent == -1 \* a numeric key that is not in the file; "absent" is one of text

Or(value, default) == IF value = Absent THEN default ELSE value

MaxTimeout == 86400
MaxSlots == 4096

\* opt_path(): an empty string counts as absent.
Given(path) == path \notin {"absent", ""}

\* parse_listen() and listen::parse().
ListenParses(listen) == listen \in {"absent", "ip:port", ":port"}

\* capped_timeout(), nonzero_timeout().
NonzeroTimeout(secs) == secs # 0 /\ secs <= MaxTimeout

\* A key that is at least 1 and, in bytes, at most the largest usize.
Size(value, unit) == value # 0 /\ value * unit <= UsizeMax

NoTwice(names) == IsInjective(names)

\* resolve_pool() and check_entrypoint().
PoolAccepts(pool) ==
  /\ Or(pool.processes, Parallelism) \in 1 .. MaxSlots
  /\ pool.entrypoint = "file"

Pool(pool) ==
  [processes |-> Or(pool.processes, Parallelism),
   mode |-> IF pool.mode = "absent" THEN "dispatcher" ELSE pool.mode]

-----------------------------------------------------------------------------
(* [http]                                                                  *)

\* rapira_static_files::resolve() and check_static_root().
StaticAccepts(st) ==
  /\ st.root = "directory"
  /\ \A entry \in ToSet(st.forbid) : At(entry, 1) = "." /\ Len(entry) > 1 /\ ToSet(entry) \cap {"/", "sp"} = {}

\* resolve_static_files().
MiddlewareAccepts(http) ==
  /\ NoTwice(http.middleware)
  /\ ToSet(http.middleware) \subseteq {"static"}
  /\ (http.static = <<>>) <=> (http.middleware = <<>>)

\* resolve_uploads() and check_uploads_dir().
UploadsAccepts(up) ==
  /\ Size(Or(up.max_file_size_mb, 2), Mega)
  /\ Size(Or(up.max_field_size_kb, 256), Kilo)
  /\ 0 \notin {Or(up.max_parts, 1024), Or(up.max_part_headers, 32), Or(up.max_files, 20)}
  /\ up.dir # "unwritable"

HttpAccepts(http) ==
  /\ ListenParses(http.listen)
  /\ Size(Or(http.max_body_size_mb, 8), Mega)
  /\ NonzeroTimeout(Or(http.write_timeout_secs, 30))
  /\ NonzeroTimeout(Or(http.keepalive_timeout_secs, 60))
  /\ PoolAccepts(http.pool)
  /\ http.uploads # <<>> => Pool(http.pool).mode = "dispatcher" /\ UploadsAccepts(http.uploads[1])
  /\ http.static # <<>> => StaticAccepts(http.static[1])
  /\ MiddlewareAccepts(http)

\* The [http] settings, and Config::superglobals of Server::from_settings().
Http(http) ==
  [pool |-> Pool(http.pool), max_body_size |-> Or(http.max_body_size_mb, 8) * Mega,
   superglobals |-> Pool(http.pool).mode # "dispatcher",
   uploads |-> Pool(http.pool).mode = "dispatcher", static |-> http.static # <<>>,
   write_timeout |-> Or(http.write_timeout_secs, 30)]

-----------------------------------------------------------------------------
(* [grpc]                                                                  *)

\* optional_timeout() of both keys; the default is not clamped to the maximum.
Deadlines(default, max) ==
  /\ default = Absent \/ NonzeroTimeout(default)
  /\ max = Absent \/ NonzeroTimeout(max)
  /\ Absent \in {default, max} \/ default <= max

\* resolve_interceptors(), with the resolver of [grpc.auth].
InterceptorsAccept(grpc) ==
  /\ NoTwice(grpc.interceptors)
  /\ ToSet(grpc.interceptors) \subseteq {"auth"}
  /\ (grpc.tokens_file = "absent") <=> (grpc.interceptors = <<>>)
  /\ grpc.tokens_file # ""

GrpcAccepts(grpc) ==
  /\ ListenParses(grpc.listen)
  /\ Given(grpc.descriptor_set)
  /\ grpc.services # <<>>
  /\ Deadlines(grpc.default_timeout_secs, grpc.max_timeout_secs)
  /\ NonzeroTimeout(Or(grpc.keepalive_interval_secs, 10))
  /\ NonzeroTimeout(Or(grpc.keepalive_timeout_secs, 10))
  /\ InterceptorsAccept(grpc)
  /\ PoolAccepts(grpc.pool)

-----------------------------------------------------------------------------
(* The shared tables and the whole file.                                   *)

\* rapira_observability::resolve().
ObservabilityAccepts(ob) ==
  /\ ListenParses(ob.listen)
  /\ NonzeroTimeout(Or(ob.keepalive_timeout_secs, 60))
  /\ ob.metrics \/ ob.probes

\* resolve_supervisor(), and drain_grace() in half seconds.
ControlTimeout(supervisor) == Or(supervisor.process_control_timeout_secs, 30)

BrokenDrainGrace(secs) == 2 * (secs - Min({5, secs}))

DrainGrace(secs) == 2 * secs - Min({10, secs})

\* resolve_log(): a target begins with a letter, and holds no filter syntax.
LogAccepts(targets) ==
  \A name \in ToSet(targets) :
    At(name, 1) \in {"a", "_"} /\ ToSet(name) \subseteq {"a", "_", ":", ".", "-"}

\* The modes that Plugin::modes() lists.
Modes == [http |-> {"classic", "worker", "dispatcher"}, grpc |-> {"dispatcher"}]

\* resolve(): a table that is there is a sequence of one.
Resolves(file) ==
  /\ file.http # <<>> \/ file.grpc # <<>>
  /\ file.http # <<>> => HttpAccepts(file.http[1])
  /\ file.grpc # <<>> => GrpcAccepts(file.grpc[1])
  /\ NonzeroTimeout(ControlTimeout(file.supervisor))
  /\ file.observability # <<>> => ObservabilityAccepts(file.observability[1])
  /\ LogAccepts(file.targets)

\* The interpreters of every plugin.
Threads(file) ==
  LET of(table) == IF table = <<>> THEN 0 ELSE Pool(table[1].pool).processes
  IN of(file.http) + of(file.grpc)

\* serve() of main.rs: the checks before PHP starts.
Starts(file) ==
  /\ Resolves(file)
  /\ Threads(file) <= MaxSlots
  /\ file.http # <<>> => Pool(file.http[1].pool).mode \in Modes.http
  /\ file.grpc # <<>> => Pool(file.grpc[1].pool).mode \in Modes.grpc
=============================================================================

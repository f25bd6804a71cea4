------------------------------- MODULE Server -------------------------------
(***************************************************************************)
(* The life of the server process (src/worker.rs; the plugin threads of    *)
(* crates/sapi/src/plugin.rs; the drains of crates/plugins/http/src/       *)
(* serve.rs and crates/plugins/grpc/src/serve.rs; join and the drops of    *)
(* crates/sapi/src/start.rs).                                              *)
(*                                                                         *)
(* The main thread starts the observer and, per plugin, a PHP pool and a   *)
(* plugin thread, polls for a reason to stop, and takes everything down in *)
(* order.  A console event, the shutdown timer and main may each end the   *)
(* process.  A plugin has at most one connection with one request, a pool  *)
(* one PHP thread: what PHP does between is in Intake and PhpPool.         *)
(*                                                                         *)
(* main: observer, pool, plugin (startup), abandon (the drop of a pool     *)
(*   that failed to start), poll, arm, tell, join, watch, close, wait,     *)
(*   module, return                                                        *)
(* plugin[p]: none, serve, conns, graceful, inflight, count (the stages of *)
(*   the drain), ending (the runtime drops), over                          *)
(***************************************************************************)
EXTENDS Integers

CONSTANTS Plugins, \* the number of plugins; each has its pool
          Grpc     \* the plugins that speak gRPC; the others speak HTTP

ASSUME ServerConstants == Plugins \in Nat \ {0} /\ Grpc \subseteq 1 .. Plugins

Running == -1 \* the process has not exited

VARIABLES
  main,
  at,          \* the plugin or pool that main's loop is at
  startup,     \* the startup has not failed
  asked,       \* console::ASKED
  failed,
  boot_failed,
  told,        \* the stop flag of the plugins and of the observer
  timer,       \* the shutdown timer runs
  due,         \* the deadline of the shutdown has passed
  observer,    \* none, serve, ok (over) or error (over)
  plugin,
  fatal,       \* the listener of the plugin failed
  grace,       \* drain_grace of the plugin has passed
  result,      \* what the plugin thread returned
  conn,        \* none, http1 or http2
  request,     \* none, counted, or late: begun after the last count
  cut,         \* history: the runtime dropped with a counted request
  php,         \* none, gated (before the start gate), live or over
  pools,       \* the pools that main joins: 1 .. pools
  running,     \* the plugin threads that main joins: 1 .. running
  stopping,    \* Rapira::stop was called
  module,      \* PHP is started
  exit         \* the exit code, or Running

progress == <<startup, failed, pools, running>>
control == <<main, at, progress>>
signals == <<asked, told, timer, due>>
drain   == <<plugin, fatal, grace, result>>
traffic == <<conn, request, cut>>
sapi    == <<php, boot_failed, stopping, module>>
world   == <<observer, drain, traffic>>
vars    == <<control, signals, world, sapi, exit>>

Each == 1 .. Plugins

Main == {"observer", "pool", "abandon", "plugin", "poll", "arm", "tell", "join", "watch",
         "close", "wait", "module", "return"}
Stage == {"none", "serve", "conns", "graceful", "inflight", "count", "ending", "over"}

Init ==
  /\ main = "observer" /\ at = 1
  /\ startup = TRUE /\ failed = FALSE
  /\ asked = FALSE /\ told = FALSE /\ timer = FALSE /\ due = FALSE
  /\ observer = "none"
  /\ plugin = [p \in Each |-> "none"]
  /\ fatal = [p \in Each |-> FALSE] /\ grace = [p \in Each |-> FALSE]
  /\ result = [p \in Each |-> "ok"]
  /\ conn = [p \in Each |-> "none"] /\ request = [p \in Each |-> "none"]
  /\ cut = [p \in Each |-> FALSE]
  /\ php = [p \in Each |-> "none"] /\ stopping = [p \in Each |-> FALSE]
  /\ boot_failed = FALSE
  /\ pools = 0 /\ running = 0
  /\ module = TRUE
  /\ exit = Running

Goto(next) == main' = next /\ at' = 1

\* force_exit: nothing else runs.
ForceExit(code) ==
  exit' = code /\ UNCHANGED <<control, signals, world, sapi>>

\* What a forced exit tells of a boot failure.
ForcedCode == IF boot_failed THEN 70 ELSE 1

-----------------------------------------------------------------------------
(* The main thread.  A Broken... operator stands for one plausible bug of  *)
(* the operator after it; no specification uses it.                        *)

FailStartup(next) == Goto(next) /\ startup' = FALSE

StartObserver ==
  /\ main = "observer"
  /\ \/ Goto("pool") /\ observer' \in {"none", "serve"} /\ UNCHANGED startup
     \/ FailStartup("arm") /\ UNCHANGED observer
  /\ UNCHANGED <<failed, pools, running, signals, drain, traffic, sapi, exit>>

\* start_pool.  On a failed spawn the threads that wait at the gate stay for
\* the drop of the half-built pool.
StartPool ==
  /\ main = "pool"
  /\ \/ /\ main' = "plugin"
        /\ pools' = at
        /\ php' = [php EXCEPT ![at] = "live"]
        /\ UNCHANGED <<stopping, startup>>
     \/ /\ main' = "abandon" /\ startup' = FALSE
        /\ stopping' = [stopping EXCEPT ![at] = TRUE]
        /\ \E left \in {"none", "gated"} : php' = [php EXCEPT ![at] = left]
        /\ UNCHANGED pools
  /\ UNCHANGED <<at, failed, running, signals, world, boot_failed, module, exit>>

\* Rapira::drop: joins for five seconds, and gives up.
AbandonPool ==
  /\ main = "abandon"
  /\ Goto("arm")
  /\ UNCHANGED <<progress, signals, world, sapi, exit>>

\* run_plugin, and the next plugin or the polling loop.
StartPlugin ==
  /\ main = "plugin"
  /\ \/ /\ running' = at
        /\ plugin' = [plugin EXCEPT ![at] = "serve"]
        /\ IF at < Plugins THEN main' = "pool" /\ at' = at + 1 ELSE Goto("poll")
        /\ UNCHANGED startup
     \/ FailStartup("arm") /\ UNCHANGED <<running, plugin>>
  /\ UNCHANGED <<failed, pools, signals, observer, fatal, grace, result, traffic, sapi,
                 exit>>

ObserverOver == observer \in {"ok", "error"}

\* The polling loop ends.
Wanted ==
  \/ asked \/ boot_failed \/ ObserverOver
  \/ \E p \in 1 .. running : plugin[p] = "over"

StopPolling ==
  /\ main = "poll" /\ Wanted
  /\ Goto("arm")
  /\ UNCHANGED <<progress, signals, world, sapi, exit>>

\* The deadline starts, and the thread that enforces it.
ArmTimer ==
  /\ main = "arm"
  /\ \/ /\ Goto("tell") /\ timer' = TRUE
        /\ failed' = ObserverOver
        /\ UNCHANGED <<startup, pools, running, asked, told, due, world, sapi, exit>>
     \/ ForceExit(1)

TellPlugins ==
  /\ main = "tell"
  /\ Goto("join") /\ told' = TRUE
  /\ UNCHANGED <<startup, failed, pools, running, asked, timer, due, world, sapi, exit>>

BrokenFold(error) == failed' = error

\* An error of one thread makes the whole shutdown a failure.
Fold(error) == failed' = (failed \/ error)

JoinPlugin ==
  /\ main = "join"
  /\ \/ /\ at <= running /\ plugin[at] = "over"
        /\ at' = at + 1 /\ Fold(result[at] = "error")
        /\ UNCHANGED main
     \/ at > running /\ Goto("watch") /\ UNCHANGED failed
  /\ UNCHANGED <<startup, pools, running, signals, world, sapi, exit>>

JoinObserver ==
  /\ main = "watch" /\ observer # "serve"
  /\ Goto("close") /\ Fold(observer = "error")
  /\ UNCHANGED <<startup, pools, running, signals, world, sapi, exit>>

StopPools ==
  /\ main = "close"
  /\ Goto("wait")
  /\ stopping' = [p \in Each |-> stopping[p] \/ p <= pools]
  /\ UNCHANGED <<startup, failed, pools, running, signals, world, php, boot_failed,
                 module, exit>>

\* pool.join(deadline): the thread is over, or the budget is.
JoinPool ==
  /\ main = "wait"
  /\ \/ /\ at <= pools /\ php[at] = "over"
        /\ at' = at + 1 /\ UNCHANGED main
        /\ UNCHANGED <<progress, signals, world, sapi, exit>>
     \/ at <= pools /\ php[at] = "live" /\ due /\ ForceExit(ForcedCode)
     \/ /\ at > pools /\ Goto("module")
        /\ UNCHANGED <<progress, signals, world, sapi, exit>>

BrokenActiveThreads == FALSE

\* PhpModule.active
ActiveThreads == \E p \in Each : php[p] \in {"gated", "live"}

\* PhpModule::drop: PHP is shut down, or the process is killed.
DropModule ==
  /\ main = "module"
  /\ \/ ActiveThreads /\ ForceExit(1)
     \/ /\ ~ActiveThreads
        /\ Goto("return") /\ module' = FALSE
        /\ UNCHANGED <<startup, failed, pools, running, signals, world, php, boot_failed,
                       stopping, exit>>

\* The end of serve() and of main().
Return ==
  /\ main = "return"
  /\ ForceExit(CASE ~startup -> 1 [] startup /\ boot_failed -> 70
             [] startup /\ ~boot_failed /\ failed -> 1 [] OTHER -> 0)

-----------------------------------------------------------------------------
(* The console handler and the shutdown timer.                             *)

\* The first event asks, the second kills.
Console ==
  \/ asked /\ ForceExit(130)
  \/ /\ ~asked /\ asked' = TRUE
     /\ UNCHANGED <<control, told, timer, due, world, sapi, exit>>

DeadlinePasses ==
  /\ timer /\ ~due /\ due' = TRUE
  /\ UNCHANGED <<control, asked, told, timer, world, sapi, exit>>

BrokenTimerFires == due /\ main \in {"close", "wait", "module"} /\ ForceExit(ForcedCode)

TimerFires == due /\ ForceExit(ForcedCode)

-----------------------------------------------------------------------------
(* The observer.                                                           *)

\* The listener fails, or the stop flag and the drain end it; a drain past
\* its grace is no error, a panic is.
ObserverEnds ==
  /\ observer = "serve"
  /\ \/ observer' = "error"
     \/ told /\ observer' = "ok"
  /\ UNCHANGED <<control, signals, drain, traffic, sapi, exit>>

-----------------------------------------------------------------------------
(* A plugin thread.                                                        *)

Enter(p, stage) == plugin' = [plugin EXCEPT ![p] = stage]

\* The acceptor closes at the stop flag or with a fatal error, and the drain
\* begins; or serve() fails before it accepts.
StopAccepting(p) ==
  /\ plugin[p] = "serve"
  /\ \/ told /\ Enter(p, "conns") /\ UNCHANGED <<fatal, result>>
     \/ Enter(p, "conns") /\ fatal' = [fatal EXCEPT ![p] = TRUE] /\ UNCHANGED result
     \/ /\ conn[p] = "none" /\ Enter(p, "ending")
        /\ result' = [result EXCEPT ![p] = "error"] /\ UNCHANGED fatal
  /\ UNCHANGED <<control, signals, observer, grace, traffic, sapi, exit>>

GracePasses(p) ==
  /\ plugin[p] \in {"conns", "graceful", "inflight"} /\ ~grace[p]
  /\ grace' = [grace EXCEPT ![p] = TRUE]
  /\ UNCHANGED <<control, signals, observer, plugin, fatal, result, traffic, sapi, exit>>

\* The HTTP drain: wait for the connections, ask the rest to end, wait for
\* the requests.
DrainStep(p) ==
  /\ p \notin Grpc
  /\ \/ plugin[p] = "conns" /\ (conn[p] = "none" \/ grace[p]) /\ Enter(p, "graceful")
     \/ plugin[p] = "graceful" /\ (conn[p] = "none" \/ grace[p]) /\ Enter(p, "inflight")
     \/ plugin[p] = "inflight" /\ (request[p] = "none" \/ grace[p]) /\ Enter(p, "count")
  /\ UNCHANGED <<control, signals, observer, fatal, grace, result, traffic, sapi, exit>>

\* What the HTTP drain reports as cut short.
Stranded(p) == request[p] # "none"

Report(p, error) ==
  /\ Enter(p, "ending")
  /\ result' = [result EXCEPT ![p] = IF error THEN "error" ELSE "ok"]
  /\ UNCHANGED <<control, signals, observer, fatal, grace, traffic, sapi, exit>>

CountStranded(p) ==
  p \notin Grpc /\ plugin[p] = "count" /\ Report(p, fatal[p] \/ Stranded(p))

\* The gRPC drain: every connection has ended, or the grace has and calls or
\* HTTP/2 connections remain.
GrpcDrained(p) ==
  /\ p \in Grpc /\ plugin[p] = "conns"
  /\ \/ conn[p] = "none" /\ Report(p, fatal[p])
     \/ conn[p] # "none" /\ grace[p]
        /\ Report(p, fatal[p] \/ request[p] # "none" \/ conn[p] = "http2")

\* The runtime drops with what it still runs, and the thread returns.
DropRuntime(p) ==
  /\ plugin[p] = "ending"
  /\ Enter(p, "over")
  /\ cut' = [cut EXCEPT ![p] = request[p] = "counted"]
  /\ conn' = [conn EXCEPT ![p] = "none"]
  /\ request' = [request EXCEPT ![p] = "none"]
  /\ UNCHANGED <<control, signals, observer, fatal, grace, result, sapi, exit>>

-----------------------------------------------------------------------------
(* Connections, requests and PHP threads.                                  *)

Connect(p) ==
  /\ plugin[p] = "serve" /\ conn[p] = "none" /\ request[p] = "none"
  /\ conn' = [conn EXCEPT ![p] = "http1"] \/ (p \in Grpc /\ conn' = [conn EXCEPT ![p] = "http2"])
  /\ UNCHANGED <<control, signals, observer, drain, request, cut, sapi, exit>>

\* A request begins on a connection that is open, also during the drain.
BeginRequest(p) ==
  /\ plugin[p] \notin {"none", "over"} /\ conn[p] # "none" /\ request[p] = "none"
  /\ request' = [request EXCEPT ![p] = IF plugin[p] = "ending" THEN "late" ELSE "counted"]
  /\ UNCHANGED <<control, signals, observer, drain, conn, cut, sapi, exit>>

\* The reply is out.
EndRequest(p) ==
  /\ request[p] # "none"
  /\ request' = [request EXCEPT ![p] = "none"]
  /\ UNCHANGED <<control, signals, observer, drain, conn, cut, sapi, exit>>

\* The connection ends, with its client or after a reply of the drain: a gRPC
\* call goes with it, an HTTP request may stay in flight until PHP is done.
Disconnect(p) ==
  /\ conn[p] # "none"
  /\ conn' = [conn EXCEPT ![p] = "none"]
  /\ request' = [request EXCEPT ![p] = IF p \in Grpc THEN "none" ELSE @]
  /\ UNCHANGED <<control, signals, observer, drain, cut, sapi, exit>>

\* A pool that has handled nothing ends an interpreter as unhealthy, or
\* cannot build one: the thread is over then.  Neither looks at `stopping`.
BootFails(p) ==
  /\ php[p] = "live"
  /\ boot_failed' = TRUE
  /\ \E next \in {"live", "over"} : php' = [php EXCEPT ![p] = next]
  /\ UNCHANGED <<control, signals, world, stopping, module, exit>>

\* worker_main returns after the stop, if PHP ever lets it; a thread whose
\* gate was dropped returns at once.
ThreadEnds(p) ==
  /\ php[p] \in {"gated", "live"} /\ stopping[p]
  /\ php' = [php EXCEPT ![p] = "over"]
  /\ UNCHANGED <<control, signals, world, boot_failed, stopping, module, exit>>

-----------------------------------------------------------------------------
Startup  == StartObserver \/ StartPool \/ AbandonPool \/ StartPlugin
Shutdown == StopPolling \/ ArmTimer \/ TellPlugins \/ JoinPlugin \/ JoinObserver
            \/ StopPools \/ JoinPool \/ DropModule \/ Return

Plugin(p) == StopAccepting(p) \/ GracePasses(p) \/ DrainStep(p) \/ CountStranded(p)
             \/ GrpcDrained(p) \/ DropRuntime(p)
Traffic(p) == Connect(p) \/ BeginRequest(p) \/ EndRequest(p) \/ Disconnect(p)
Php(p)     == BootFails(p) \/ ThreadEnds(p)

Next ==
  \/ /\ exit = Running
     /\ \/ Startup \/ Shutdown \/ Console \/ DeadlinePasses \/ TimerFires \/ ObserverEnds
        \/ \E p \in Each : Plugin(p) \/ Traffic(p) \/ Php(p)
  \/ exit # Running /\ UNCHANGED vars

Spec == Init /\ [][Next]_vars

(***************************************************************************)
(* Fairness: the main thread takes the steps it can, and time passes for   *)
(* the shutdown timer.  Nothing is assumed of PHP, of clients, of a plugin *)
(* or of the observer.                                                     *)
(***************************************************************************)
Fairness ==
  /\ WF_vars(exit = Running /\ (Startup \/ Shutdown))
  /\ WF_vars(exit = Running /\ DeadlinePasses)
  /\ WF_vars(exit = Running /\ TimerFires)

FairSpec == Spec /\ Fairness

-----------------------------------------------------------------------------
(* Properties.                                                             *)

MainTypes ==
  /\ main \in Main /\ at \in 1 .. Plugins + 1
  /\ pools \in 0 .. Plugins /\ running \in 0 .. pools
  /\ exit \in {Running, 0, 1, 70, 130}

FlagTypes ==
  /\ startup \in BOOLEAN /\ failed \in BOOLEAN
  /\ asked \in BOOLEAN /\ told \in BOOLEAN /\ timer \in BOOLEAN /\ due \in BOOLEAN
  /\ boot_failed \in BOOLEAN /\ module \in BOOLEAN

ThreadTypes ==
  /\ observer \in {"none", "serve", "ok", "error"}
  /\ plugin \in [Each -> Stage]
  /\ fatal \in [Each -> BOOLEAN] /\ grace \in [Each -> BOOLEAN] /\ cut \in [Each -> BOOLEAN]
  /\ result \in [Each -> {"ok", "error"}]
  /\ conn \in [Each -> {"none", "http1", "http2"}]
  /\ request \in [Each -> {"none", "counted", "late"}]
  /\ php \in [Each -> {"none", "gated", "live", "over"}]
  /\ stopping \in [Each -> BOOLEAN]

\* The types of the variables; main joins no plugin without a pool.
TypeOK == MainTypes /\ FlagTypes /\ ThreadTypes

\* Exit code 0 means that nothing went wrong: the startup succeeded, no pool
\* failed to boot, no plugin and no observer reported an error, no request
\* that the drain had to wait for was cut short, and PHP is down.  Exit code
\* 70 means a failed boot.
ExitCodeTells ==
  /\ exit = 0 =>
       /\ startup /\ ~boot_failed /\ ~module
       /\ observer # "error"
       /\ \A p \in Each : plugin[p] = "over" /\ result[p] = "ok" /\ ~cut[p]
  /\ exit = 70 => boot_failed

\* PHP is never shut down under a live PHP thread, not even one of a pool
\* that failed to start.
ModuleOutlivesThreads == ~module => \A p \in Each : php[p] \notin {"gated", "live"}

\* A server that was asked to stop exits, however stuck PHP, a plugin or a
\* client is.
ShutdownEnds == asked ~> exit # Running
=============================================================================

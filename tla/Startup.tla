------------------------------- MODULE Startup ------------------------------
(***************************************************************************)
(* Server processes that share one configuration, from main() to the end   *)
(* (src/main.rs, src/pidfile.rs, crates/net/src/listen.rs): the pid file,  *)
(* the listeners, and the order in which an error or a normal end gives    *)
(* them up.  What happens between serve() and its return is in Server.     *)
(*                                                                         *)
(* The pid file is opened with create_new and read sharing only, so a      *)
(* second process can neither create it while it exists nor delete or      *)
(* replace it while its owner is there.  A process that is killed leaves   *)
(* it behind, without a lock; the operator may then delete it.             *)
(***************************************************************************)
EXTENDS Naturals, Sequences, FiniteSets

CONSTANTS
  Processes, \* processes started with one rapira.toml
  Listeners  \* the addresses of its plugins and observer, in the order of their bind

ASSUME StartupConstants ==
  Listeners \in Seq(STRING) /\ {"none", "empty", "foreign"} \cap Processes = {}

VARIABLES
  stage,   \* [Processes -> Stage]
  pidfile, \* the pid file: who wrote it, "empty", or "none" when there is none
  lock,    \* the process that has it open, or "none"
  bound,   \* [address -> who listens on it: a process, a "foreign" program, or "none"]
  unlinked \* the processes whose remove_file() failed

startup_vars == <<stage, pidfile, lock, bound, unlinked>>

Addresses == {Listeners[i] : i \in DOMAIN Listeners}

Held(p) == {a \in Addresses : bound[a] = p}

\* The listener that p binds next, or one past the last.
NextListener(p) == Cardinality(Held(p)) + 1

StartupInit ==
  /\ stage = [p \in Processes |-> "off"]
  /\ pidfile = "none" /\ lock = "none"
  /\ bound \in [Addresses -> {"none", "foreign"}]
  /\ unlinked = {}

MoveTo(p, s) == stage' = [stage EXCEPT ![p] = s]

Release(p) == bound' = [a \in Addresses |-> IF bound[a] = p THEN "none" ELSE bound[a]]

\* PidFile::write() opens the file; one that exists is an error.
Create(p) ==
  /\ stage[p] = "off"
  /\ IF pidfile = "none"
     THEN MoveTo(p, "created") /\ pidfile' = "empty" /\ lock' = p
     ELSE MoveTo(p, "ended") /\ UNCHANGED <<pidfile, lock>>
  /\ UNCHANGED <<bound, unlinked>>

\* It writes the id, or closes the file to remove it.
Write(p) ==
  /\ stage[p] = "created"
  /\ \/ MoveTo(p, "boot") /\ pidfile' = p /\ UNCHANGED lock
     \/ MoveTo(p, "closed") /\ lock' = "none" /\ UNCHANGED pidfile
  /\ UNCHANGED <<bound, unlinked>>

\* from_settings() or a check on the pools fails, or a plugin's prepare().
PrepareFails(p) ==
  /\ stage[p] = "boot"
  /\ MoveTo(p, "leaving")
  /\ UNCHANGED <<pidfile, lock, bound, unlinked>>

\* rapira_net::bind() of the next listener: an address in use is an error.
Bind(p) ==
  /\ stage[p] = "boot" /\ NextListener(p) <= Len(Listeners)
  /\ LET a == Listeners[NextListener(p)]
     IN IF bound[a] = "none"
        THEN bound' = [bound EXCEPT ![a] = p] /\ UNCHANGED stage
        ELSE MoveTo(p, "leaving") /\ UNCHANGED bound
  /\ UNCHANGED <<pidfile, lock, unlinked>>

StartServing(p) ==
  /\ stage[p] = "boot" /\ NextListener(p) > Len(Listeners)
  /\ MoveTo(p, "serving")
  /\ UNCHANGED <<pidfile, lock, bound, unlinked>>

\* worker::serve() returns.
ServeReturns(p) ==
  /\ stage[p] = "serving"
  /\ MoveTo(p, "leaving")
  /\ UNCHANGED <<pidfile, lock, bound, unlinked>>

\* The plugins are dropped before the pid file, the last declared first.
DropPlugins(p) ==
  /\ stage[p] = "leaving"
  /\ MoveTo(p, "dropped") /\ Release(p)
  /\ UNCHANGED <<pidfile, lock, unlinked>>

\* PidFile::drop() closes its handle ...
CloseFile(p) ==
  /\ stage[p] = "dropped"
  /\ MoveTo(p, "closed") /\ lock' = "none"
  /\ UNCHANGED <<pidfile, bound, unlinked>>

BrokenRemovable == pidfile # "none"

\* A file that someone has open without delete sharing cannot be removed.
Removable == pidfile # "none" /\ lock = "none"

\* ... and removes the file by its path, whoever made it; an error is ignored.
RemoveFile(p) ==
  /\ stage[p] = "closed"
  /\ MoveTo(p, "ended")
  /\ \/ Removable /\ pidfile' = "none" /\ UNCHANGED unlinked
     \/ unlinked' = unlinked \cup {p} /\ UNCHANGED pidfile
  /\ UNCHANGED <<lock, bound>>

\* The shutdown timer, a console close, or the operator ends the process.
Killed(p) ==
  /\ stage[p] \notin {"off", "ended", "killed"}
  /\ MoveTo(p, "killed") /\ Release(p)
  /\ lock' = (IF lock = p THEN "none" ELSE lock)
  /\ UNCHANGED <<pidfile, unlinked>>

\* The operator deletes a file that no process has open.
OperatorDeletes ==
  /\ Removable
  /\ pidfile' = "none"
  /\ UNCHANGED <<stage, lock, bound, unlinked>>

StartupNext ==
  \/ \E p \in Processes :
       Create(p) \/ Write(p) \/ PrepareFails(p) \/ Bind(p) \/ StartServing(p)
         \/ ServeReturns(p) \/ DropPlugins(p) \/ CloseFile(p) \/ RemoveFile(p) \/ Killed(p)
  \/ OperatorDeletes

StartupSpec == StartupInit /\ [][StartupNext]_startup_vars

-----------------------------------------------------------------------------
\* Who holds a listener is the process that the pid file names, from its bind
\* to its end, whatever other processes and the operator do with the file; and
\* a file that names a process nobody has open is left of one that was killed,
\* could not remove it, or is about to (pidfile.rs, main.rs).
PidFileTells ==
  /\ \A a \in Addresses : bound[a] \in Processes => pidfile = bound[a] /\ lock = bound[a]
  /\ \A p \in Processes :
       pidfile = p /\ lock = "none" => p \in unlinked \/ stage[p] \in {"closed", "killed"}
=============================================================================

# Rapira for Windows: verification

TLA+ models of the Rapira server for Windows, the TLC runs that check them on
small instances, and theorems about them that TLAPS has checked. Paths are
relative to the repository root. `PROJECT.json` lists the components, the runs,
the hazards each property is for, the findings, the theorems, the source lines
behind each definition, and for each property a plausible bug that breaks it
(the `Broken...` operators in the modules; no specification uses them).

To repeat a check, in this directory: `tlc -config MCIntake.cfg MCIntake`,
`tlapm IntakeProofs.tla`, and so on.

## 1. The system

One process embeds thread-safe PHP. Each plugin (HTTP, gRPC) has its own
listener, its own Tokio runtime, its own intake queue and its own pool of PHP
interpreter threads. A request passes these parts:

    client -> listener -> plugin task -> Intake -> PHP thread (pool)
                                |                      |
                                +---- frames of the reply (channel)
                                |
    client <- hyper <- body <---+

| Part | Source | State | Operations | Interacts by |
| --- | --- | --- | --- | --- |
| Intake queue | `crates/sapi/src/work.rs`, `UnitRx` in `start.rs` | two semaphores (1024 slots, 64 MiB of body bytes), an unbounded channel, the gauges `pending`, `shed`, `failed_on_full_queue` | reserve and grow a body, submit, cancel, time out, receive, close | called by plugin tasks and PHP threads; the stop drops its ends |
| PHP thread pool | `start.rs`, `rapira_worker.rs`, `classic_worker.rs`, `quota.rs`, `scoreboard.rs`, `exchange/` | per thread: the interpreter, its quota, three copies of "over" (quota, thread flag, slot state), the failed boots, the unit in hand | build, boot, receive, handle, shed, recycle, panic, back off, stop | takes units, writes slots that probes read, raises `boot_failed` |
| HTTP exchange | `crates/plugins/http/src/{handler,bridge,exchange,serve}.rs`, `php/{respond,sendfile,mod}.rs` | the stage of the unit, a channel of 16 frames, hyper's buffer, flush counts, who holds the receiver | writeHead, writeBody, sendFile, flush, trailers, end, drop; poll, flush, time out, close | PHP blocks on the channel; the dropped receiver tells PHP that the client left |
| SAPI request context | `callbacks.rs`, `context.rs`, `types.rs` | head, buffered body and sender of a classic or worker request; the engine globals that outlive it | the SAPI callbacks, `rapira_finish_request()`, the seal at the end | second producer of the same frames |
| Static file cache | `crates/middleware/static_files/src/cache.rs` | entries (bytes, metadata, age), their weight, `next_expiry` | stat, open, fill, take, put, expire | shared by runtime threads under a mutex; the file system changes behind it |
| Server lifecycle | `src/worker.rs`, `crates/sapi/src/plugin.rs`, the drains in `serve.rs` of each plugin | stop flags, deadlines, threads to join, `boot_failed`, the exit code | start, poll, console events, drain, join, forced exit, PHP shutdown | flags and joins between main, plugins, observer, timer, pools |
| gRPC plugin | `crates/plugins/grpc/src` | the stage of a call, its share of the body budget, its oneshot reply channel, the script's object | read a message, unary call, add metadata, finish, discard, release, cancel | same intake and pool |
| Uploads | `crates/plugins/http/src/{multipart,handler}.rs`, `php/mod.rs` | body permits, spooled files, the spool directory of each server | read, parse (inline or blocking), spool, unlink, sweep at start, remove at the end | permits go from the handler to a parse task to the queue; files from the parse to the unit |
| Process entry | `src/main.rs`, `src/pidfile.rs`, `crates/net/src/listen.rs` | the pid file with its share mode, the bound listeners | create, write, bind, serve, drop, remove | processes with one configuration meet at the pid file and the addresses |
| Requests' and replies' rules | `check.rs`, `request.rs`, `php/headers.rs`, `response.rs`, `static_files/src/lib.rs`, gRPC metadata, schema, tokens | none | check, map, frame, select | called by the parts above |
| Configuration | `src/settings.rs`, `crates/config`, the `config.rs` files | none | resolve, check | read once at the start |
| Observability | `crates/observability/src` | none of its own | scrape, probes | reads slots and gauges with relaxed order |
| Logging, Zend bindings, build | see `PROJECT.json` | | | |

What is hard here:

- *Interleaving*: submissions against a stop, the close of a connection against
  the end of its reply, two cache fills of one file, a sibling's first unit
  against the decision that a pool cannot boot, a gRPC deadline against the
  answer of the script, a blocking parse against the departure of its client.
- *State used after an await or an unlock*: `found_full`, the metadata of a
  fill, the flush watermark, the quota flag read before a wait.
- *Partial failure*: a submission can end at any await; PHP can panic, die or
  bail out with a unit in hand; a thread can fail to spawn in a half-built pool.
- *Resources*: permits, bytes, gauges and units that must be returned or
  counted exactly once on every path.
- *State that outlives its owner*: engine globals from one request to the next,
  spool directories and pid files from one process to the next.
- *Liveness*: a PHP thread parked on a full channel, a thread in a wait during a
  stop, a shutdown that waits for PHP.

What makes each part correct: the intake loses no permit, count, wake-up or unit
and behaves as one bounded queue; the pool counts each unit once, gives nothing
to a spent interpreter, keeps its threads and ends when stopped; an exchange is
counted once, its frames are well formed, a cut response never looks complete,
and PHP is not told that the client of a delivered response left (but for one head,
section 4); the cache never
mixes two versions of a file, and its byte count is exact; the server exits when
asked to and its exit code tells the truth; a gRPC call gets one verdict, its script
a true answer, and its bytes return; a classic or worker reply is sealed once and
tells of its script's failure, never of another request's; spooled files are gone
when the reply ends; and the rules without state agree with what stands behind them
(a CGI variable with one field, a head with its body, a part with its bytes).

## 2. Modules

| Module | What it is |
| --- | --- |
| `Intake` | the intake with its two semaphores, the receiving threads and the stop |
| `WorkQueue` | the abstract queue that `Intake` implements |
| `PhpPool` | the PHP threads of a pool, in each of the three modes |
| `HttpExchange` | one HTTP exchange of the dispatcher mode, from the script to the socket |
| `FrameStream` | the abstract stream of frames that a unit of `HttpExchange` produces |
| `StaticCache`, `StaticCacheAge` | the file cache against files that change; the second adds a record of when |
| `Server` | the process: main, plugins, pools, observer, console, timer |
| `GrpcCall` | unary gRPC calls, from the first body frame to the verdict and the end of the script's object |
| `UnaryRpc` | the abstract call that `GrpcCall` implements: one verdict, one answer, told truly |
| `CgiReply` | the reply of classic and worker requests on one PHP thread; it implements `FrameStream` too |
| `Uploads` | request bodies under the budget, spooled files and spool directories over several server lives |
| `Startup` | processes that share a pid file and listeners |
| `Tokens` | texts as token sequences, and the operations on them |
| `HttpRules`, `GrpcRules`, `Multipart`, `Settings` | decisions without state: request checks, CGI view, static routing, reply heads; metadata, schema, tokens; the form grammar; the configuration |
| `Rules` | takes one input and decides on it, beside `Startup`; states what each decision promises and what an input is |
| `MC...` | TLC instances; the constants are in the `.cfg` files, the inputs of `Rules` in `MCRules` |
| `IntakeProofs`, `PhpPoolProofs`, `ServerProofs` (with `Startup` and `Rules`), `HttpExchangeProofs`, `GrpcCallProofs`, `StaticCacheProofs`, `RequestProofs` (`Uploads` and `CgiReply`) | theorems and proofs |
| `SumTheorems` | lemmas for them: induction over finite sets, sums |

### Intake

`phase[r]` is where a request's task is in `submit()`, or where its `Entry` is
afterwards, and so which permits it owns. `slots` and `budget` are the tokio
semaphores: free permits and, for slots, the wait list; a cancelled or timed-out
acquire gives an assigned permit to the next waiter, as tokio does. The receiving
thread dequeues (`RecvUnit`), lowers `pending` (`CountOut`) and drops the permits
(`ReleaseEntry`) in three steps, in that order, because other threads see the
steps in between. `stop` counts the steps of `Rapira::stop` (the flag, the
close of the budget, the close of the slots, the drop of the stop channel). The
queue is destroyed with the last receiver, entry by entry. `pending` is never
lowered for a destroyed entry, as in the code. Bytes are what the code compares
(sizes), never content. Merged: the non-blocking and the blocking half of a
receive (nothing happens between them that another thread can tell).

`ImplementsQueue` maps a request to *outside, admitted, taken, handed, refused*
or *lost* by its phase, and the channel to the abstract FIFO.

### PhpPool

One action per step of `worker_main`, `run_cycle`, `classic_worker`, the boot
shed and the receive functions; `pc` is the place in that code. The queue is
just a count (`backlog`), because `Intake` models it. What a PHP script does is a choice:
it may return, die, bail out, receive (waiting or not), keep or drop a unit, or
panic. Slot events are applied in the code's order with the code's rules
(`Show`, `DrainingOr`), so that each copy of "the interpreter is over" can be
seen before the others. `mode` is a variable that never changes, which lets one
run check the three modes. Not modelled: the values of the backoff, the recycle
and error counters, process identifiers.

### HttpExchange

The PHP side makes calls; a call appends a list of frames (`todo`) that are sent
one by one and block on the full channel. The connection side is `conn`: await the
head, answer, stage a first frame, be polled for the body, drop. hyper is external: it
polls while its buffer has room, never past a framed length, drops the body when
the encoder is full, and a flush counts only when the whole buffer was written.
`reply` is who holds the receiver; its drop is what PHP sees as a cancellation.
`sendFile` checks its slice against the file's size (`SliceFits`) and takes its length
to the end when none is given. The staging timeout of 10 ms may fire at any time.
`framed` is the length that hyper frames the body with, `awaited` the one that
`framed_length()` computes and the watermark waits for. They differ for one head:
a `101` that the script gives a length (`switching`) goes out as an empty 502 and
keeps that length, so that no watermark is set; section 4 says what follows.
Not here: the request body and the 503 of a shed unit (`Uploads`), the content of
headers (`HttpRules`), hyper's keep-alive.

### StaticCache

A *version* stands for bytes, modification time and length of a file. A request
stats and then opens, as `ServeDir` does; each looks into the store under the
mutex, and goes to the file system without it. A fill checks the metadata before
and after the read; files may be rewritten in place (open handles see it),
replaced or deleted at any point. A replacement that keeps time and length is
undetectable, as `same_file` says, and is not modelled. `eligible()` is left out: it
depends on the request only.

### Server

`main` is the place of the main thread in `serve()`. A plugin thread goes through
the stages of its drain; HTTP and gRPC differ in them (`DrainStep`,
`CountStranded` against `GrpcDrained`). A plugin has at most one connection with
one request, and a pool one PHP thread: `Intake` and `PhpPool` hold the rest, and
the drain only asks whether something is left. A forced exit (console, timer,
`PhpModule::drop`, a stuck pool) freezes the state with the exit code. The
drain's grace and the shutdown deadline are independent timers here; the code
makes the first shorter (`drain_grace`), which the model does not need. Not
modelled: `prepare()`, the pid file, logging.

Three things the model shows, which `ExitCodeTells` is worded around: a request that
begins after the drain's last count and before the runtime drops (`late`) is cut
with exit code 0; a failed startup exits with 1 even when a pool also failed to
boot; and a gated thread of a pool that failed to start may outlive the five
seconds its drop waits, in which case `PhpModule::drop` kills the process with 1.

### GrpcCall

`task` is the service future of a call, `obj` the script's `GrpcState`. The two ends of
the oneshot channel are `sender` and `receiver`: a deadline or a departing client drops
the receiver, and with it whatever else the future owns; a queued unit stays in the
queue. `finish()` is two steps, because the receiver can go between its check
(`BeginFinish`) and its send (`Send`). The body budget is spelled out once more
(`Extra`, `Grow`), since the gRPC plugin shares it between the body, the
submission and the queue entry in its own way. The queue itself is a sequence
without permits: `Intake` has those. A call whose entry is destroyed with the queue
gets an internal error, as a lost reply does: `verdict` is then `"lost"`.

`ImplementsRpc` shows the verdict with the error of the body in it, and as the
script's answer what its first finalize call returned: *given*, *denied*, or *never*.

### CgiReply

One PHP thread serves one request after the other. `sg` are the engine globals that
the code has to reset, `cx` the Context of the request, `todo` the frames that
`finish()` still has to send. User code runs in two stages (`script` and `shutdown`
functions), sets a status in two ways, prints into a buffer, flushes, seals early,
and fails in three ways. `stage` then walks through the teardown in the order of the code,
which differs between the modes. `Emit` is `rapira_rs_ub_write` with its two
aborts. As the body is buffered whole, a client that leaves is noticed only by the next
write.

Two observations. In worker mode a handler that throws after output is cut, but a warning
that a shutdown function raises replaces the recorded error, and a
`rapira_finish_request()` there then seals the reply as complete: it looks at
that record (`rapira_worker.rs:234`), and the outcome of the handler reaches the Context
only after the shutdown functions (`:178`). `EndTells` is therefore about replies that the
end of the request seals. And a reply that outgrows the buffer is sealed as cut, while
the script may go on.

### Uploads

A frame of a body brings one part: a file, a field, or one that a limit or the grammar
refuses. `held` are the permits of a request; `owned` the files that its `SpooledFile`s
name. Where the future of a request is dropped, its permits go too, except when a
blocking parse or a queue entry holds them (`KeepsBytes`). `disk` is the spool
directory of the running server; `stuck` are files that could not be removed. The
process can die at any point and its id can come back. Not modelled: two servers
that use one upload directory at the same time (the sweep looks at living
processes, and takes any subset of ids to be alive). A shed unit answers 503 before
its files are removed; a failed removal is only logged, until the drain removes the
directory.

### Startup

The stages of `main()` around `serve()` for several processes, with the drop order of
its locals: plugins (and with them the listeners) first, then the pid file, which closes its
handle and removes the file by its path in two steps. The share mode of the open
file (`lock`) is what makes the second step safe. The configuration is taken to name a
pid file; without one a process has only its listeners. `README.md:64` says that a forced
exit can leave the file, and `UPSTREAM.md:33` that a clean shutdown removes it.

### HttpRules, GrpcRules, Multipart, Settings

Pure operators, one per function of the code. Texts are sequences of tokens: a token is a
character that a rule looks at, or a run of characters that no rule looks into.
`Rules` states what they have to agree with, as far as possible by a second,
different definition: `PartsByLines` reads a form line by line where `Parts` scans for
delimiters; `MayNameForbidden` is how Windows resolves a name; `CgiNamesOneField` goes back
from a variable to the lines of the request; `IsFramed` holds the length that a client
sees, and the one that the watermark waits for, against the bytes behind a head. Base64 is a
letter per byte with padding. Notes: a head whose status is replaced by 502 (a
committed `101`) may carry the length of the old one; hyper drops the field
(`HyperLines`), so the client sees no wrong length, but the watermark waits for it, and
`HeadIsFramed` says so (`ReplacedHead`); `http.static.forbid` accepts an entry that ends
in a dot, which can never match, as eligible paths have none.

## 3. Runs

| Run | Instance | States | What it shows |
| --- | --- | --- | --- |
| `intake_safety` | 4 requests, 2 threads, 2 slots, 2 bytes, bodies of 1 and 3, symmetry | 574k | permits conserved and handed on; exact counters; at most one late unit per thread; the intake implements `WorkQueue` |
| `intake_liveness` | 2 requests, 2 threads, 1 slot | 21k | every submission ends, and no unit is stranded |
| `pool_safety` | 2 threads, 3 units, quota 1, 2 failed boots, 3 modes | 4.2M | units counted once; slots, flags and quotas agree; no thread is lost |
| `pool_liveness` | 1 thread, 4 units | 54k | a stop ends the thread; a failed boot is retried |
| `cache_safety` | 2 requests, 2 files, 4 versions, 3 instants, symmetry | 1.8M | exact bytes, `next_expiry` a bound; whole entries |
| `cache_age` | 1 file, 5 instants | violated | the finding below |
| `exchange` | 3 body bytes, channel of 2, buffer of 1, 2 idle flushes | 426k | counted once; well-formed frames; no cut response looks complete; delivered is not cancelled, save for a replaced `101`; a blocked call returns; a departure is seen |
| `server` | an HTTP and a gRPC plugin | 1.4M | the exit code tells the truth; PHP is not shut down under a live thread; a server that was asked to stop exits |
| `grpc_call` | 2 calls, 1 slot, 2 bytes of budget, messages of up to 2 bytes, 1 metadata field | 136k | a call is counted once and its bytes return; an answer is whole; each call is a `UnaryRpc`, and ends |
| `cgi_reply` | 3 printed bytes, buffer of 2, statuses 204, 404 and 999, both modes | 1.1M | the reply is one stream that tells of a failure, and of its own request only |
| `uploads` | 2 requests, 2 process ids, budget of 4 parts, bodies of 3, inline parses of 1, 2 files, symmetry | 423k | files go before the reply ends; bodies in memory are reserved; leftovers block no start |
| `rules` | every input of `MCRules`; 3 processes, 2 listeners | 113k | the decisions without state; the pid file |

Why these bounds are enough to be interesting. *Intake*: with four requests over
two slots there are two holders and two waiters, so that a permit can pass to a
waiter that is cancelled while another waits; a body of 3 over a budget of 2 is
refused, a body of 1 fits twice. *Pool*: a quota of 1 with jitter is the smallest
that is reached, and two failed boots are the smallest limit with a failure that does
not end the interpreter; two threads are needed for one to be blamed while its sibling
serves; three units let a shed, a handled and a reclaimed unit meet. *Cache*: two
versions of equal length, a longer one and one that is too large, in a store that
holds one or two files. *Exchange*: three bytes over a channel of two frames fill
the channel before the end, and a buffer of one byte stops hyper's polling.
*Server*: two plugins, because a loop that joins them can lose the first error.
*gRPC*: two calls compete for one slot and for a budget that either can use up alone;
one metadata field tells an early from a late one. *CGI*: three bytes pass a
buffer of two, and requests follow each other without end; 204 has no body and 999
is out of range. *Uploads*: a body can be over the budget's rest, over its own limit, and
hold a file, a bad part and a file too many; an inline parse is one part, a task two; two ids let one
be reused while another is alive or not. *Rules*: sequences of up to three or four of the
tokens that a rule tells apart, so that each separator stands first, last, doubled
and escaped; configurations with every pair of keys away from their defaults; and
three processes, because the drop of one can race the start of two.
Bounds that only cap a counter are `Units`, `Versions`, `MaxTime`, `MaxBody`,
`MaxFlushes`, `MaxFields` and `MaxOut`; each is named in its module and stops only the
environment.

Deadlock is checked in every run but `rules`, where an input that was taken, or
processes that have all ended, are the end: states where the other systems rightly rest
have a stuttering action of their own (`Finished`, or the last disjunct of `Server!Next`).

### Fairness

- `Intake`: tasks that can move are polled, timers fire, threads inside `recv()`
  run, and `stop()` runs to its end once called. That a handler returns to `receive()` is an
  assumption on the application (`StartRecv`). Nothing is assumed of a client
  that uploads.
- `PhpPool`: the Rust code runs and waits end when their reason is there. Of the
  application: a handler returns, a script does not run for ever between two
  receives, one that was told *closed* ends, and the teardown of the boot request
  does not bail out every time. The last is strong fairness, and it is needed: a
  script whose first `receive()` always bails (`rapira_worker.rs:94`, `:199`)
  recycles for ever, with no failure count, no backoff and no look at the stop
  flag. Only the forced exit ends such a thread. Two notes on the same code: a
  bailout in the shutdown of a cycle rebuilds without a backoff
  (`rapira_worker.rs:87`), and the decision that a pool cannot boot reads
  `handled` and the slots one after the other (`start.rs:386`).
- `HttpExchange`: tasks are polled, hyper flushes while the client reads, the
  write timer fires while it does not. Nothing is assumed of the script.
- `GrpcCall`: tasks that can move are polled, the idle timer of a body fires, and
  `submit()` ends its wait. Of the application: a script receives again and lets go of
  its objects, and the thread of a stopped pool ends. No fairness for answers,
  deadlines or departures: `CallEnds` holds without them.
- `Server`: only the main thread and the shutdown timer are fair. PHP, clients,
  plugins and the observer may hang.

## 4. Findings and notes

`cache_age`: `cache.rs:33` promises that a change to a cached file reaches the
client after one second. A fill stamps its entry when it is put (`:335`), after
the await of the blocking read, and not when it last looked at the file (`:319`);
`stat()` takes its time before the system call (`:259`). A put that is delayed by
the runtime serves old bytes for one second from the put on. The run shows the
old version served `TTL` ticks after it was replaced.

A note on `exchange`: `bridge.rs:218` promises that a delivered response never reports
cancellation to PHP. One head breaks this. A script that commits `101` with a
content-length gets an empty 502 (`respond.rs:199`, `handler.rs:357`) that keeps the
length as a field (`handler.rs:397`). `framed_length()` takes it for the length of the body
(`:183`), the watermark waits for bytes that hyper never asks for, and so it is never set.
When the client has read the whole 502 and closes, the drain finds no watermark and
drops the receiver (`bridge.rs:232`): a script that still works is told that its
client is gone. `DeliveredIsKept` is the promise with this exception (`Replaced`), and
`LeavingIsSeen` shows that the exception is real: after the close only a response that is
watched (`Watched`) keeps its receiver, and a replaced `101` never is. `HeadIsFramed`
confirms the comment of `framed_length()`, *the body length hyper will frame*, for
every other head, and gives the length for this one.

## 5. Proofs

The theorems hold for every value of the constants that satisfies the
assumption at the head of each module. Every safety property that a run checks is
a theorem, but one (`PartsRoundTrip`); what is left to TLC is at the end of this
section. The assumptions ask for naturals and lower bounds that the code has, for finite
sets where something is summed over them (requests, calls, paths), that `NoReply` is no
reply and `NoFrame` no frame, and that the inputs of `Rules` have their shape
(`RulesInputs`).

- `IntakeProofs`: `TypeCorrect`, `SlotsAreHandedOn` (from `SlotsNeverLeak` and
  `NoWakeupLost`), `BytesNeverLeak`, `CountersAreExact`, `OneLateUnit` and the refinement
  `IntakeIsAQueue`. The counters are not inductive by themselves: a dequeue has
  to find its entry *queued*, and a release its entry in the hand of exactly one
  thread. `IInv` adds that the channel holds distinct queued requests
  (`QueueOwned`), that each dequeued request is in one hand, in the phase that the
  thread's step says (`HandOwned`, `TakenInHand`), and that verdicts and marks come
  in order (`MarksInOrder`). Counting is done with cardinalities of sets of
  requests per phase (`SizeMove`), and the bytes with their sum over the requests.
- `PhpPoolProofs`: `PoolTypeCorrect`, `SlotsTellTheTruth` (from `DrainedStays` and
  `ServingAlive`), `PoolKeeps`, `QuotaNeverExceeded`, `SpentIsLeftAlone`,
  `UnitsAreCountedOnce`, `WorkingPoolKeepsItsName`. "This
  interpreter is over" is stored in the quota state, in a thread flag and in the slot,
  and written in different orders. `IInv` says which copy follows from which at each place of the code
  (`DrainInv`), where a slot must not serve (`PlaceInv`), why a thread was told *closed*
  (`ClosedInv`), and bounds failures and quota (`FailInv`, `QuotaInv`). For the units,
  `HandInv` says where a thread may own one, so that no unit is overwritten by the
  next; every step of a thread then moves one unit between the queue, its hand, its count
  and the lost ones (`Accounted`). The blame is about the past: `worked`, a
  history that no action reads, records that a unit was handled or reclaimed on some
  thread, whatever became of its interpreter and whether or not there is a quota. A pool
  with that history has its flag set (`HealthInv`).
- `ServerProofs`: `ServerTypeCorrect`, `ExitCodeIsTrue`, `PhpGoesLast`, for any
  number of plugins. Code 0 is decided in one expression at the end of `serve()`; what it
  stands for happened before in other threads. `IInv` carries it there: what main's
  place says of the loops it has finished (`PlaceInv`), what it took from the
  threads it has joined (`JoinInv`), that a plugin with a counted request when it
  ends reports it (`Reported`), and that PHP goes last (`ModuleInv`).
  The same module proves `PidFileIsTrue` of `Startup`, for any number of processes
  and listeners: which stages own an open file and what is in it (`FileInv`), that only
  they have listeners (`BoundInv`), and how a file can be left (`LeftInv`). A second owner
  is excluded by `lock`, which is one process.
- `ServerProofs`, `Rules`: `AcceptedIsUsableAlways`, `HeadIsFramedAlways`, `AliasesRefusedAlways`
  and `MetadataRoundTripsAlways`. A run of `Rules` takes one input, so the invariant only
  says that it is one of those given (`InputIsTaken`), and each property is a lemma about
  what the code computes for *every* input: `StartsUsable`, `SchemaUsable`,
  `TokensUsable`, `HeadFramed`, `ProbeAnswered`, `RequestNamed`, `PathNamed`, `AddsRoundTrip`,
  `ShownIsValid`. Texts, lists of lines, files of services and additions have any length.
  The lemmas under them say what the operators of `Tokens` do to a sequence with one more
  element: `FlattenSeq`, `Kept`, `Split`, `Trim`, `Keys`, `ValuesOf`. From there the argument
  differs by kind. Two safe field names with one CGI name are one name, since a name with
  a `_` is refused, and so no alias can stand beside a field. A path without a dot or a space at its
  end, a `:` or a `~` is its only spelling. The kept head has one length, written
  after all others are dropped; a replaced one keeps the script's for the watermark, and
  `HeadFramed` takes it apart. Metadata is an induction over the additions (a table of what is collected
  after each one), then one over the fields: their lines come back in groups
  of one name, and a joined line splits at the commas the proxy put there, because Base64
  has none. `RulesInputs` says what the parsers in front guarantee: hyper gives a list of
  lines with non-empty lower-case names (the `x` and `X` of the model), TOML gives naturals, a compiled
  descriptor set declares no name twice, and a byte has a letter. TLC evaluates it in `rules`.
- `HttpExchangeProofs`: `UnitCountsOnce`, `DeliveredStays`, `CompleteResponsesAreWhole`
  and the refinement `FramesAreAStream`. `IInv` has two halves that share only the channel. `UnitInv` is
  the PHP side: where the unit is and what is left of it there (`PlaceInv`), when it is
  counted (`CountInv`), what the script has said and what of it is in the channel, in which
  order (`ScriptInv`, `OrderInv`), and that the body fits what the head declared (`RoomInv`).
  `ReplyInv` is the socket side: an end in the channel means a final unit (`EndInv`),
  the task that holds the receiver (`HolderInv`), what hyper was given (`GivenInv`),
  that the watermark is set when the last byte is encoded, so that a later flush puts it
  on the socket, if it waits for what hyper frames (`MarkInv`), and that a receiver dropped while PHP works leaves a response
  that is not whole there (`LostInv`). `SwitchInv` beside them ties `awaited` to the head
  that the script gave: it differs from `framed` only for a `101` with a length, the
  exception that `DeliveredStays` states.
  A complete response needs both halves and an account of the bytes between them, since
  the last chunk is sent by a task that sees neither the unit nor what PHP wrote.
  `SpokenInv` is about the stream: what a call has said and has still to say is what PHP
  wrote (`TellInv`), the last words of a unit that is let go complete only an empty body
  (`LeaveInv`), and a discarded unit has no receiver (`DeadInv`). `WireInv` carries it to
  hyper: the head is the first frame, and its absence from a closed stream means that
  the cycle died (`HeadInv`); an end is the last frame, and nothing was said after
  it (`TailInv`); and the bytes that hyper has, those of the file slice it reads,
  those of the staged frame and those of the channel are what the stream has said
  (`PipeInv`). The sum over the channel is the end of a function of partial sums (`Adds`),
  which grows with a sent frame and loses its first step with a taken one.
- `StaticCacheProofs`: `EntriesAreWhole`, `RefusalsAreFair` and `StoreIsExact`. A fill compares the
  metadata before and after its read, and never the bytes. `IInv` orders the versions it
  saw: *first metadata, bytes, second metadata*, since an open handle only moves on to
  newer versions (`InOrder`); if the ends agree, so does the middle. `Due` bounds
  `next_expiry` by the expiry of every entry, through takes, renewals with an older
  clock, and searches. `Balanced` is the byte count: the weight of the entries, through
  replacements, evictions and sweeps of the expired.
- `GrpcCallProofs`: the refinement `CallsAreRpcs`, `ReplyCarriesAll`, `CallsCountOnce` and
  `CallsAreAccounted`, for any number of calls. Deadline, departure, answer, discard,
  release, shedding and the end of the queue race for a call, yet every step moves
  one call (`OthersSame`) except the last, which sweeps the queue. So `IInv` is
  per call: what the task's stage allows (`TaskInv`), where the sender may be
  (`SenderInv`), what the channel holds and the script was told (`AnswerInv`), that
  whoever finds the receiver gone finds a deadline or a departure behind it
  (`GoneInv`), and the counters (`CountInv`); with the queue's entries distinct
  (`QueueInv`) and the cycle's unit attached to an object (`UnitInv`). Then each
  action maps to one step of `UnaryRpc` or to none. The budget adds who owns a permit up
  to which end of a call (`OwnInv`); the sweep returns all permits of the queue at once, and
  is a sum over the calls that it clears.
- `RequestProofs`, `Uploads`: `SpoolsAreRemoved`, `StartsAreNotBlocked` and
  `BodiesAreCovered`. A file on disk is in
  its request's hand or failed to go (`DiskInv`), a unit that is over has none (`OwnInv`),
  and an end is seen of those only, or of a shed unit (`EndInv`). A server's own
  directory survives its sweep only if its removal failed (`DirInv`). `ByteInv` adds the
  permits up, and covers each part that is in memory.
- `RequestProofs`, `CgiReply`: `EndsTell`, `RequestsAnswerForThemselves` and the refinement
  `RepliesAreStreams`, for any buffer, output and status codes. Globals, Context and
  wire each know a part of a request's history, and lose it at different places. `ReplyInv`
  says what each of them may hold against a request (`BlameInv`) and what a stage starts
  without (`CleanInv`), which is why nothing of the request before can reach a reply;
  that a failure stays on record until the seal (`FaultInv`); and where the printed bytes
  are until then (`OpenInv`). `finish()` builds the whole reply at once and
  sends it frame by frame to a client that may leave: `WireInv` says that what was sent is a
  prefix of one reply of a known shape (`Shape`) that is true to the history (`Tells`).
  Both properties and the steps of `FrameStream` follow from the shapes.
- `SumTheorems`: sums over finite sets. A sum in the community modules is a recursive function
  that is chosen, and the library's induction theorems take an operator, which the
  provers cannot instantiate. The lemmas here go another way: a set of
  naturals has a least element (`LeastNat`, from the well-foundedness of `<`), so a set
  of naturals, or of subsets of a finite set, that contains its successors is everything
  (`SetInduction`, `FiniteInduction`). From this the sum exists, a change of one
  element changes it by as much, and zeros add up to zero.

The selections of these modules are written over sets of positions (`Kept(s, places)`)
and the loops as recursive functions, because the prover expands neither an operator
argument (`SelectSeq`, `FoldLeft`) nor a `RECURSIVE` operator.

Only model-checked: all liveness (`SubmissionEnds`, `StopEnds`, `FailedBootRetries`,
`BlockedCallReturns`, `LeavingIsSeen`, `ShutdownEnds`, `CallEnds`), which rests on fairness; and
`PartsRoundTrip`, which compares a scan that jumps from delimiter to delimiter with a
reading line by line. Its statement sorts a set with `SetToSortSeq`, an operator
with an operator argument, and the scan needs an induction of its own for each of its
three loops.

## 6. Not modelled

- *Observability*: a scrape loads atomics one by one with relaxed order, and the code
  makes no promise about their agreement, so there is nothing to check; what a
  slot may show at any time is `SlotsTell`.
- *Logging, diagnostics, Zend bindings, value conversion, `info.rs`*: they format or move
  data. What PHP may do is a choice in `PhpPool`, `HttpExchange`, `GrpcCall` and `CgiReply`.
- *hyper, tower-http, connectrpc, tokio, the PHP engine*: external, modelled from how
  the code uses them. HTTP keep-alive and pipelining belong to hyper.
- *Descriptor and TOML decoding, address parsing*: one predicate each.
- *Two servers in one upload directory*, and the content of uploaded files.
- *Build scripts and the test suite.*

What would come next: `PartsRoundTrip` as a theorem for every body, and the composition
of `Uploads` with `Intake`, which shares its byte budget and its queue, in one instance.

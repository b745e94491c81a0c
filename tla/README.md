# Verification of the event, process, request and connection layers of CPPPraticse

The repository collects C++ course work around two substantial pieces of its own:
`server/ngx_cpp/ngx_cpp_dev`, a C++ framework for nginx modules (an epoll event
module, thread tasks, subrequests with a data hook, load balancing) on top of the
annotated nginx sources in `server/ngx_cpp/nginx`, and
`database/redis/rediscpp/redis-cpp`, a blocking Redis client. The rest (`lang/`,
`boost/`) are small independent exercises.

## Inventory

| Component | State | Operations | Interacts through |
|---|---|---|---|
| Thread pool (`core/ngx_thread_pool.c`, `ngxpp/NgxThread.hpp`) | task queue, `waiting`, done list, `event.active` of every task | post, thread cycle, completion handler, destroy | mutex and condition variable with its threads, done list and `ngx_notify` with the event loop |
| Notification (`CppEpollHandler::notify`, `notify_handler`) | eventfd counter, edge on epoll's ready list, `event.index` | write, delivery, read at the wrap | thread pool, posted events |
| Event module (`framework/epoll/CppEpollHandler.hpp`) | epoll set, `event_list`, `ev->active`, `ev->ready` | add, del, add_conn, del_conn, process_events | calls handlers, posts events |
| Connection table (`core/ngx_connection.c`) | free stack, reusable queue, `fd` and `instance` of every slot | get, free, close, reusable, drain | called by handlers, from inside the event dispatch |
| Posted events, loop (`event/ngx_event_posted.c`, `event/ngx_event.c`) | accept queue, read/write queue | post, delete, process; one loop iteration | event module, timers, handlers |
| Shared memory mutex (`core/ngx_shmtx.c`) | lock word, `wait`, semaphore | lock, unlock, wakeup, force_unlock | worker processes; the master when one of them dies |
| Accept mutex (`event/ngx_event_accept.c`) | its lock word, `ngx_accept_mutex_held`, `ngx_accept_disabled`, registered listening sockets | trylock, enable, disable, accept | workers, the kernel's backlog |
| Master process (`os/unix/ngx_process_cycle.c`, `ngx_process.c`) | `ngx_processes`, signal flags, `live`, `delay`, `ngx_new_binary` | spawn, reap, signal, reload, upgrade, shutdown | signals and channels with its children |
| Requests and subrequests (`http/ngx_http_request.c`, `ngx_http_core_module.c`, postpone filter) | tree of requests, `count`, `subrequests`, `c->data`, postponed lists | create, post, run, finalize, terminate, write | content handlers, filters, the socket |
| Subrequest and data hook modules (`http/subrequest`, `http/datahook`, `ngxpp/NgxSubRequest.hpp`) | per-request `hook`, `do_hook`, status, body | handler, sub_post, parent_post, header and body filter | request processing |
| Upstream and balancing (`http/ngx_http_upstream.c`, `..._round_robin.c`, `http/loadbalance`, `ngxpp/NgxLoadBalance.hpp`) | weights, `fails`, `checked` of the peers; tries and current peer of every request | get, free, connect, next, finalize | requests that overlap in one worker |
| Redis connection (`redis_connection.cpp`) | socket, unread bytes | about 100 methods: `_send`, then one `_recv_*` reader | a server over a byte stream |
| Redis pool, timers, footer filter, shared-memory counter, upstream helper, echo, test and variables modules, type wrappers | none of their own, or sequential | | |

What is hard in it: pool threads, the event loop and the kernel interleave (lost
wakeups, coalesced edge-triggered notifications, destruction racing running
tasks); a handler called from the middle of a batch of events may close, reuse or
drain connections whose events come later; worker processes die with a lock, or
between an unlock and the wakeup it owes; signals coalesce and meet failing forks, hung
workers and a new binary; subrequests become ready in any order while their
output must not; requests that overlap share one account of their peers; a client over
a stream must consume exactly its own reply on every error path. `PROJECT.json`
lists the hazards line by line.

## Modules

| Module | Models | Checked by |
|---|---|---|
| `ThreadPool` | thread pool and notification | `pool`, `ThreadPoolProofs` |
| `AsyncTasks` | what `NgxThreadPool::post` promises (abstract) | refinement `ImplementsAsyncTasks` in `pool` and in `ThreadPoolProofs` |
| `Lists` | unlinking from an intrusive list (`ngx_queue_remove`), shared by the models | |
| `CppEpoll` | event module, connection table, posted queues, loop iteration | `epoll`, `epoll_write`, `CppEpollProofs` |
| `Shmtx` | the mutex in shared memory, deaths and the master's forced unlock | `workers`, `WorkersProofs` |
| `Workers` | `Shmtx` composed with the accept mutex and the loops of the workers | `workers`, `WorkersProofs` |
| `MasterProcess` | the master and its children | `master`, `MasterProcessProofs` |
| `Requests` | requests, subrequests, output order, subrequest and data hook modules | `requests`, `requests_count`, `requests_flush`, `RequestsProofs` |
| `Upstream` | upstream requests, round robin, the random balancer | `upstream`, `upstream_blame`, `UpstreamProofs` |
| `RedisConnection` | methods and readers at the level of lines and payloads | `redis_sync`, `RedisConnectionProofs` |
| `ReadLine` | `connection::_read_line` byte by byte | `read_line_exact`, `ReadLineProofs` |
| `*Proofs` | theorems about the module of that name | tlapm |
| `MC*` | instances for TLC | |

### ThreadPool

Pool threads step through `ngx_thread_pool_cycle` (`pc`): `top` before the lock,
`wait` and `woken` inside `ngx_thread_cond_wait`, `run` in the task's handler,
`notify` between the done list and `ngx_notify`, `exited`. The main thread
(`main`) is in the loop, in `notify_handler`, about to take the done list, in the
completion callbacks, or in `ngx_thread_pool_destroy`. One step is one critical
section of `tp->mtx` or of the done list's spinlock, or one system call. `Post` is
enabled in request handlers and in completion callbacks, since a callback may post
its own task again. `PostSignalFails` is the error return that leaves
`event.active` set. Posts that are refused (active task, full queue) change nothing and
are no steps. The eventfd is a counter and an edge: a write raises
both, `epoll_wait` takes the edge and reports it if the counter is not zero,
`notify_handler` reads the counter only when `index` reaches
`NGX_MAX_UINT32_VALUE`, here `IndexMax`. The Exit task of destruction is posted by
the same `Enqueue`, under the same overflow test, and its failure abandons the
destruction. Mutex calls are assumed to succeed and threads to have been created.

### CppEpoll

Slots are the preallocated `ngx_connection_t` objects; `gen` counts how often a
slot was taken into use and exists only for the properties. A handler is any
sequence of `Add`, `Del`, `AddConn`, `DelConn`, `Close`, `SetReusable` and `Get`,
ended by `HandlerReturns`; it can be called from the read half or the write half
of an entry of `event_list`, from either posted queue, or from a timer. `Get`
includes draining, which closes reusable connections when no slot is free (their
read handlers see `c->close`; the handlers that mark a connection reusable close
it then). `epoll_ctl` is external: it refuses what the kernel refuses, and a
refused call changes nothing. The event module is chosen at the start from `EventModules`,
`CppEpollHandler` or `ngx_epoll_module.c`; they differ in `WriteArg`, the event
passed on for a writable socket.

### Shmtx and Workers

A process is somewhere in `ngx_shmtx_lock` or `ngx_shmtx_unlock` (`pc`), one atomic
instruction or system call per step; `wait` is the signed number the code takes it
for. `SemWaitFails` is a `sem_wait` that fails for another reason than `EINTR`: the process
tries the lock again and its announcement stays (`leaked`). The loop in `ngx_shmtx_wakeup` is one step, its last exchange. A process may die
at any step; the master reaps it and forces the lock in its name (`ForceUnlock`,
`ReaperWakeup`, `ReaperPost`) before its pid can come back. `leaked`, `lost` and
`unwoken` record what a death took along. A failing call that enables accept events is one
step with taking and releasing the accept mutex (`EnableFails`).

`Workers` extends it: every worker runs `ngx_process_events_and_timers` (`at`), tries
the accept mutex, of which only the lock word matters since nobody waits for it,
reports and accepts clients, and uses the zone from its handlers. Listening sockets
are level-triggered. Faults, bounded together with the deaths, are failing
`epoll_ctl` and `sem_wait` calls and `EMFILE`. `MaxFree < 8 * Reserve` states that `Reserve` is an
eighth of the connections, `MaxFree` those that others have not taken.

### MasterProcess

Signals are blocked outside `sigsuspend`, so one wakeup is one step: `Handled` (the
signal handlers and `waitpid`), `Body` (reap, leave, terminate, quit, reload, restart,
reopen, change binary, no accept, in the order and with the `continue`s of the code)
and `Top`. Each part maps a state of the master to the next. Children take commands
from an inbox, which stands for the channel and for `kill`; `SIGKILL` acts at once.
`cycle` is the configuration a child was forked with. Faults: a child dies, exits
with code 2 or hangs, a wakeup in which `fork` fails, a configuration that cannot be
loaded. A fork failure is all or nothing per wakeup, `worker_processes` is the same in
every configuration, and the cache manager and loader are left out.

### Requests

One connection; `s.q` has the requests in the order of creation. A handler sends
buffers, starts subrequests (`ssi`), waits, and returns a code; the subrequest module's
handler (`ndg`) is modelled with its callbacks; its refusal of other methods than GET is that
of a plain handler with an error code. Buffers are named by their request
and number, so that `Document` can say what the client should get; `n = 0` marks the
place of a subrequest, in the postponed list as in the document. `Emit` is the write
filter with a socket that may fill up. A build (`Builds`) has the data hook filter
or not; SSI with the data hook in one build is left out, because the hook keeps
every flush of a parent from happening and no SSI page would end.

### Upstream

A request is `u`, `u->peer` and its `rr_peer_data` in one record, the peers are shared.
`Connect` is `ngx_http_upstream_connect` with whatever fails at once; `Fails` is a later
error, timeout or invalid header, `HeaderError` a header that the module cannot process, which ends the
request and is not charged to the peer;
`run` keeps other requests and the clock still until a chain of immediate failures has
ended. `hist` counts the real failures of each peer. `RandomTries` is 5 in the source;
0 is enough to go from random to round robin within the tries of a request.

### RedisConnection

A method is represented by the reader it calls; `ReaderOf` has one entry per
combination of reader and kind of server answer, with the methods it stands for.
The stream consists of header lines and payloads. The server is external: it chooses a
whole answer as the protocol allows, or an error, in or outside a transaction (`Answer`),
sends it token by token (`writing`, `Deliver`), and may close between any two tokens, so
also between a bulk header and its payload. The history `answer` keeps the whole answer,
which the outcome is compared with. `RecvFails` is a recv in `_read_n` that returns -1:
`bytes_read` and the pointer go one back, the loop then takes one byte too many
(`RecvOverrun`: the next header without its first byte, `?`), and what is left of the call
depends on the bytes. `Misread` names the answers a reader does not consume
exactly (`zscore` of a missing member, `randomkey` and `zincrby`, which expect
another type of reply than Redis gives, `exec` and `config_get`, which read one
line of a list; score ranges, which read nothing). From the first such answer, a list with
a NUL byte before its last element, a failing recv inside a payload with more to come, or a call of `mset` or
`msetnx`, the history variable `mismatch` is set; the properties hold up to that point
and show that nothing else breaks the pairing of commands and replies.
`OutcomeMatchesAnswer` goes both ways: `Deserved` is the one outcome an answer calls for.
The answers whose meaning does not surface are listed in `Refused`, one disjunct each; all of
them end as `protocol_error`.

### ReadLine

The input of up to `MaxInput` bytes is chosen at the start and arrives in any
pieces. One iteration is `Peek` (the `MSG_PEEK` recv, `memchr`, the copy) and
`Consume` (the second recv). `PeekFails` and `ConsumeFails` are the results -1 the
code does not test for; what `memchr` finds with a length of `(size_t)-1` is a
nondeterministic choice: an LF behind the buffer, after which the second recv takes up to
that many bytes (`ConsumeStray`), or an access outside the process.

## Runs

| Run | Question | Bounds |
|---|---|---|
| `pool` | Is any task, wakeup or notification lost or duplicated, may the loop block, is destruction quiescent, is the pool an `AsyncTasks`, does everything end? | 2 threads, 3 tasks, `MaxQueue` 1, `IndexMax` 2, failing signals |
| `epoll` | Do flags and kernel, free stack and descriptors agree, does an event reach a closed slot or the next user of its slot, is readiness passed on? | both event modules, listening socket and 2 connections, batches of 2 events, 1 drained connection, each slot used twice |
| `epoll_write` | Does `CppEpollHandler` deliver every readiness? (violated) | 1 connection |
| `workers` | Is the zone's lock exclusive and its wakeups complete, who accepts, are clients accepted? | 2 workers, 1 listening socket, 1 client at a time, 1 fault or death |
| `master` | Are all children known, is capacity kept, does reload hand over, does a shutdown end? | 1 worker, 3 slots, 3 operator signals, 2 faults of different kinds |
| `requests` | Is the output the document, do the counters agree with the tree, does every request end? | 3 requests, 2 buffers each, the socket fills once, limits of 2 and 4 |
| `requests_count`, `requests_flush` | Do the comments on the reference count and on unsent data hold with the repository's modules? (violated) | 2 requests |
| `upstream` | Do weights balance, is the right peer blamed, are tries bounded, is "no live upstreams" true, does every request end? | 2 requests, 5 configurations, 4 seconds |
| `upstream_blame` | Does the random balancer charge the peer that failed? (violated) | 2 servers |
| `redis_sync` | Does a connection stay in step with its replies and does every call end rightly? | all methods, lists of up to 2 elements, binary values, one failing recv per payload, a new call while fewer than 2 commands or tokens are to come or unread |
| `read_line_exact` | Is exactly one line taken, however it arrives? | all inputs of up to 5 bytes, buffer of 2, `max_size` 4, one failing recv |

Some invariants are conjunctions of named parts: `TasksAccounted`, `TableConsistent`,
`StreamConsistent`, `LineConsistent`, `AcceptDiscipline`, `ChildrenTracked`,
`TreeConsistent`, `OutputExact`, `PeersConsistent` (several include the type invariant of
their module); such a part has a mutant of its own where a different defect breaks it.

Why the bounds suffice. Pool: with `MaxQueue` 1 and three tasks the pool overflows, the
queue is longer than `max_queue` while threads wake up, and a sleeping and a running
thread coexist; `IndexMax` 2 makes every second notification read the eventfd, so the
wrap races the writes. Epoll: two connections with a batch of two are what it takes for
one entry's handler to close, drain or reuse the slot of the other entry. Workers: two
processes give every race of `ngx_shmtx_lock` with an unlock, and one death reaches each
of its lines; `Reserve` and `MaxFree` of 1 let a worker run out of connections and
skip the mutex. Master: one worker and three slots make holes in the table, fill
it by a reload beside a new binary, and leave the master without children; three
signals are a reload, an upgrade and a shutdown in any order, together in one wakeup or
apart. Requests: three requests are a chain or two siblings, each active or waiting
when it ends; with a limit of 2 the second subrequest is refused. Upstream: weights 2 and
1, `max_fails` 1 and 2 make peers excluded, probed and recovered while the other request
uses them. `ReadLine`: a buffer of 2 with 5 bytes splits delimiters between buffers and
puts a whole buffer between start and delimiter; lines of 5 bytes exceed `max_size`.
`RedisConnection`: lists of two give a list that is cut, nil or refused at its first, and at its
last, element.

Larger instances pass too, beyond what a regular run should take: three pool threads with
two tasks, and four requests (1.2 million states).

Deadlock checking is off where the system may stop: after the end of a request, of all
requests, of the master, and in a blocking read of a server that has nothing to say.

### Fairness

- `pool`: each pool thread is scheduled and task handlers return; `epoll_wait` returns
  while the eventfd is on the ready list and the loop goes on to the posted queue in
  every iteration; callbacks return; `ngx_thread_pool_destroy` keeps running. Nothing is
  assumed of posts, of the decision to exit, of signals beyond one woken waiter, or of
  spurious wakeups.
- `workers`: every process runs and its handlers end, so that each step of a loop other
  than closing one more connection is taken in the end; the master reaps. Nothing is
  assumed of clients, faults and deaths.
- `master`: the master is scheduled, its timer fires, and children that do not hang take
  their commands and finish their connections.
- `requests`: the event loop runs, handlers end, and a client reads or times out.
- `upstream`: events of a request are handled; a silent peer runs into a timeout.
- `redis_sync`: the calling thread runs and the server answers what it was sent.
  `read_line_exact`: bytes sent arrive and the reader runs.

In `MasterProcess` and `Upstream` one conjunct of the fairness is written as
`[]<>~G \/ []<><<A>>_vars` with the guard `G` of `A` in place of `ENABLED <<A>>_vars`:
the same formula, without TLC's evaluation of `ENABLED` on a large action.

### Disagreements found

1. `CppEpollHandler.hpp:374,378`: for a writable socket the *read* event is posted or
   passed to the write handler. The read handler then runs twice, or the write
   handler sees `ev->write == 0` and another event's flags.
2. `NdgDataHookHandler.hpp:65`: the body filter ends the call for `in == NULL`. With the
   module compiled in, any response the socket does not take at once is never completed
   and runs into `send_timeout`, on every location.
3. `NdgSubrequestHandler.hpp:102`: `NGX_DONE` without `r->main->count++`. The count is
   zero when the request is closed, wraps to 255, and the request is never freed.
4. `NdgLoadBalanceHandler.hpp:35`: the random choice leaves `rrp.current` at 0, so the
   first peer is charged with the failures of all.

### Known limits, without a run of their own

- One `instance` bit cannot tell the first from the third use of a slot within one batch
  (`CallsAreFresh`, violated with `MaxGen` 3; stock nginx has it too).
- A worker that skips the accept mutex for want of connections still accepts what its
  registered sockets report (`OverloadedAcceptsNobody`, against the comment at
  `ngx_event_accept.c:174`).
- With two listening sockets a failing `epoll_ctl` may leave a worker accepting without
  the mutex; `partial` excepts this.
- A process that dies between unlock and `sem_post` strands a sleeper until the next
  unlock; `lost` and `unwoken` except this.
- A reload beside a new binary after the old workers have gone leaves `live` unset, and a
  later quit orphans the new workers (`OrphansOnlyBesideBinary` says that nothing else
  does); forks that all fail in a reload leave a master that cannot be stopped (`Wedged`);
  a failed `exec` leaves `ngx_new_binary` at -1, so that later reloads only start workers.
- A request that moved on to the backup servers does not return to the primary ones;
  a client that goes away while a failed peer is probed marks it live again.
- Redis, replies not read or commands not sent: `zscore` of a missing member blocks; `mset`
  and `msetnx` never send their command; the score ranges read nothing.
- Redis, answers that end as `protocol_error` although the server reported none (`Refused`):
  the status of `bgsave` and `debug_object`, and `+QUEUED` in a transaction; the integer of
  `persist`; the nil of `randomkey`; the nil list of `brpoplpush` and `exec`; an
  empty list to `exec` or `config_get`; 0 to `sadd` and its like; a list shorter than a pair to
  `blpop`; values with a NUL byte.
- Redis, failing recv: `_read_line` uses the result -1 as a length, against the comment at
  `redis_connection.cpp:1020` ("If there was an I/O error reading from the socket,
  connection_error is raised"), and `_read_n` then takes one byte too many.
- `max_size` has no effect, since `total_bytes_read` is never raised: a longer line is
  returned whole, where `redis_connection.cpp:1021` says that a blank string is.
  `LineExact` speaks of lines of at most `max_size` bytes only.

The names `CallsAreFresh` and `OverloadedAcceptsNobody` are definitions of the modules that
state what a comment promises and do not hold.

## Proofs

TLAPS proves the theorems listed in `PROJECT.json` for every value of the constants
that the `ASSUME` of the module allows: any number of threads, tasks, processes, slots,
requests, servers or bytes, any limits, with and without the faults. Each rests on an
inductive invariant. TLC checked every one of them on the instance of the run before it
was proved.

| Module | Theorems | Inductive invariant |
|---|---|---|
| `ThreadPoolProofs` | `TypeCorrect`, `WaitingCorrect`, `WakeupsSuffice`, `NotificationsSuffice`, `HandlerNeverBlocks`, `TasksInPlace`, `DestructionComplete`, `PoolImplementsAsyncTasks` | `TypeInv`, `AccountingInv`, `WakeupInv`, `NotifyInv`, `PlaceInv`, `DestroyInv` |
| `WorkersProofs` | `ImplementsShmtx`, `ZoneExclusive`, `ZoneTokens`, `ZoneSleepers`, `AcceptCorrect` | `ExclusionInv`, `TokenInv`, `DutyInv`; `AcceptInv` |
| `MasterProcessProofs` | `ChildrenCorrect`, `OrphansCorrect`, `CapacityCorrect`, `HandsOverCorrect` | `MasterInv` |
| `RequestsProofs` | `TreeCorrect`, `NeverStallsCorrect` | `Inv`; `FluentInv` |
| `CppEpollProofs` | `TableCorrect`, `PostedCorrect`, `ReadsReach`, `CallsCorrect` | `EpollInv` |
| `UpstreamProofs` | `PeersCorrect`, `BlamesCorrect`, `TriesCorrect`, `NoLiveCorrect` | `UpInv` |
| `RedisConnectionProofs` | `StreamCorrect`, `OutcomeCorrect` | `RedisInv` |
| `ReadLineProofs` | `LineCorrect` | `LineInv` |

Thread pool (from `PoolAssumption`: finite sets, distinct special tasks, positive limits).

- `TypeOK` is not inductive. `TypeInv` adds that a thread holds a task
  exactly while it runs one (so that only tasks reach the done list) and that main
  waits for an exit only while threads are left (so that `exits` stays in range).
- `WaitingCorrect`: `CountThreads` says how the
  number of threads in a set of states changes when one thread moves; a post changes
  queue and counter alike, and a thread becomes idle exactly where it decrements.
- `WakeupsSuffice`: a post adds one task and one woken
  thread if any sleeps; a thread goes to sleep on an empty queue only; a woken
  thread that leaves takes a task along. That a thread from the top of its loop
  may take the task first only makes the inequality slacker.
- `NotificationsSuffice`, `HandlerNeverBlocks`: `Readable` is the strengthening. A
  posted notification, or a handler that was entered, implies a counter above zero,
  because `notify_handler` alone reads it and does so before it takes the list.
- `TasksInPlace`: `Placed` gives each task one place, on one of the three lists or with one
  thread, and every list each task once; the lemmas on lists say what moving one
  element or a whole list does to these places.
- `DestructionComplete`: `Destroying` ties the Exit tasks still to be posted, queued or
  taken to the threads that have not exited.
- `PoolImplementsAsyncTasks`: the initial states map to initial states and each action of
  the pool to one of `AsyncTasks` or to a stutter; `PlaceInv` shows that the set of
  places a task leaves and enters is the one the abstract step names.

Zone and accept mutex (from `ShmtxAssumption`, `WorkersAssumption`). `MutualExclusion` is inductive with the
types: a pid comes back only after the lock word has lost it. `TokenInv` counts processes by
their place in the lock's code, as `CountThreads` does. `NoStrandedSleeper` speaks of
quiet states only; `DutyInv` says who owes the wakeup in all others. `Workers` inherits the three
because `ImplementsShmtx` shows its steps to be steps of `Shmtx`. `AcceptInv` adds to
`AcceptDiscipline` that a worker that owns the mutex knows it and where in its loop it may.

Master (from `MasterAssumption`). A wakeup is one step composed of the parts of the loop body, so the
invariant has to hold between two parts: `Sound` says it of the state that the parts hand on, a
lemma for each part (`ReapFacts`, `TerminateFacts`, `ReloadFacts`, ...) shows that it keeps it, and `MasterInv`
says it of the state in which the master waits.

- `ChildrenCorrect` needs only that a used slot lies below `ngx_last_process`: reaping shortens the
  table by a slot that it just freed, and spawning takes a hole or the slot at its end.
- `OrphansCorrect`: `live` is set where workers are started and computed anew where they
  are reaped; `Counted` says that when it is unset nobody but a new binary is left. The reload beside a
  new binary is the one place that breaks it, and is what the history `uncounted` records.
- `CapacityCorrect`: whoever serves has the flag `respawn`, which only exit code 2 takes away, so reaping never
  frees a slot that serves; `StartFacts` says that starting workers takes as many unused slots as
  there are workers or notes why not (by a least counterexample, since it is a loop).
- `HandsOverCorrect` is an action property: no child is marked `just_spawn` before the reload,
  those that it starts are, and all older ones have an older configuration; what follows the
  reload in the same wakeup keeps that.

Requests (from `RequestsAssumption`: at least one request; a build's limit on subrequests fits the 8-bit field
`subrequests`). A handler is one step composed of
operators on the record `s`, so `Sound` is again said of the state that they hand on, with a lemma for each
operator (posting, the filters, starting a subrequest, finalizing) and one for each handler. `Sound` has two
cases: `Dead`, a connection that is closed or to be terminated, and `Good`, with these parts.

- `Counts` is the property itself, and is not inductive: `ngx_http_finalize_request` decrements the
  count without a look at what was counted, so it is right only if no subrequest is finalized twice and
  none that is open is forgotten.
- `Tree` says why. There is a path of open requests from the main one to the active one (`c->data`); a subrequest
  that is open is on it or listed, once, in the postponed output of its parent, which is open as well; what is
  listed is open, and only the first of a list may be on the path. So a subrequest that finishes is either active
  and hands on to its parent, or stays in a list until the postpone filter makes it active.
- `Row` ties the stage of a request to its write event handler, so that a stale posted request finds an empty one or a
  flush to do and never finishes a second time.
- The count is a number of 8 bits that the subrequest module may decrement below what is open; `CountMinus` says
  that the equation modulo 256 survives each of the three changes, for which the limit has to be one less than 256.

`NeverStallsCorrect` needs, over `Sound` and in a build without the data hook, that whoever could make progress will be
called. That is `Fluent`:

- `Woken` says it of each request: one whose content handler has not run, and the active one while it has postponed
  output or is to be finalized, is in the queue of posted requests; an empty handler belongs to the running request or
  to one that is done; an active request that waits to send its rest is posted, or is the main one and the rest
  is in the write filter.
- `Ended` adds that a main request that waits to send keeps a buffer of its own as the last of its postponed output,
  so that the postpone filter comes to send it and does not end with a subrequest.
- `Level` says that the write filter keeps a rest exactly while the socket is full.

So when nothing is posted and the send timer expires, the rest is in the write filter and the socket is full: the
client did not read. With the data hook a body filter keeps output that nobody is posted for, which the run
`requests_flush` shows.

Event module (from `EpollAssumption`). No part of `EpollInv` is inductive alone: flags and kernel agree because
a free slot is registered for nothing, what is queued is current because the instance bit is the parity of
the uses of its slot and events are posted only while no handler has run, and nothing is owed at
`epoll_wait` because both queues have been run empty.

Upstream (from `UpstreamAssumption` and `ConfAssumption`, what the parser of the
configuration accepts: positive weights, a primary server). `UpInv` has a part for one request (`ReqGood`) and one for the account that all
share.

- `PeersCorrect`: choosing raises the current weights of the candidates by their effective weights and takes
  the total of the latter off the one chosen. `SumAdds` and `GroupSum` say that this leaves the sum of the
  group alone, for any set of candidates; all other steps leave the current weights alone.
- `BlamesCorrect` needs that the index a request keeps is that of the peer it holds
  (`ChoiceGood`), through the move to the backup servers, whose indices start again at 0.
- `TriesCorrect`: connections made and tries left add up to at most those allowed, one
  more while a peer is held; what was tried is remembered, except that the move to the backups forgets the
  primary servers, to which the request does not come back.
- `NoLiveCorrect` is an action property. An excluded server failed `fail_timeout` ago at most, or was looked at since;
  `ProbesGood` says that in the second case a request still holds it, since giving it back
  moves `accessed` up to `checked` or clears `fails`.

Redis (from `RedisAssumption`, `ReadLineAssumption`).

- `RedisInv` says, for every point a reader can be at, what is in the stream and what the
  server has still to send: together always the rest of one whole answer that the reader of the method
  consumes exactly (`Readable`), at its start, at an element, at a payload or at a score.
  `Elements` counts the elements that are left, so that the reader's own counter agrees with the list.
- `OutcomeCorrect` needs that rest to be tied to the history `answer`: an element that was
  read had no NUL byte, so whether the answer is refused is decided by what is left. After the
  connection is closed the part in `writing` never comes, and a call can only end with
  `RecvClosed` before it has read its whole answer, so that it returns nothing of it.
- `LineInv` places every byte of the input by its index, and says that an LF in what was read
  ends it.

Inductions over data (the sum over a finite set, the elements of a list that are
left after unlinking, the first LF of an input) are proved by a least counterexample, with `LeastNat` and
`Minimal` of `UpstreamProofs`, since the library's induction theorems have an operator
parameter that the installed provers do not instantiate.

Only model-checked:

- the liveness properties (`TasksComplete`, `DestroyTerminates`,
  `ClientsAccepted`, `TerminateEnds`, `QuitEnds`, `OldWorkersLeave`, `RequestEnds`,
  `RequestsEnd`, `CallsEnd`, `LineReturned`): fairness and `ENABLED` are beyond the prover;
- `OutputExact`, since the document it compares with is a recursive definition and the argument
  an induction over the tree of requests.

## Plan

The model is complete as far as "Not modelled" says, and every safety property that the passing runs check is
proved but `OutputExact`. What it would take is a definition of the output that is still to come, by
the path from the main request to the active one, and a proof that what was sent followed by it is the document.

## Not modelled

- The rest of nginx: configuration, request parsing, TLS, SPDY, mail and stream, the
  cache, and the content, protocol and filter modules. It is third-party code, some
  164000 of the 179000 lines the repository holds, that the modules of
  `ngx_cpp_dev` do not change; modelled of it is what they plug into. For the same
  reason the map covers a small share of the repository's lines.
- In the modelled components: set-up and tear-down of the epoll set, `EPOLLRDHUP`,
  `multi_accept` and `ECONNABORTED`, the timer tree, announcing channels between
  siblings, single-process mode, error pages, keep-alive, rate limits, `r->waited`,
  upstream cache and keepalive connections.
- The Redis pool, whose locks are empty and whose limits are unused: a list and a
  set with nothing concurrent to check. A connection that is given back after an
  exception is `RedisConnection` after such an outcome.
- `NgxTimer`, the footer filter, the echo, test, variables and upstream demonstration
  modules and the type wrappers: sequential code within reach of unit tests.
- The shared-memory counter: one atomic addition on a Boost.Interprocess segment, whose
  code is not in the repository.
- What Redis methods do with the values they receive (`info`, `type`, `sort` options),
  the socket layer `anet.c` (partial writes, `EINTR`, `SIGPIPE`).
- The exercises under `lang/` and `boost/`.

# TLA+ models of QWebServer

QWebServer is a C++ coroutine server framework: fibers on `ucontext`, an N:M
scheduler, an epoll event loop with timers, hooked blocking calls, and the
configuration and logging it is built on. This directory models the parts in
which threads, fibers, timers and the kernel meet, and the pure computations
around them, checks them with TLC and proves, with TLAPS, what the safety runs check of every
component that has state, and what is within the prover's reach of the computations.

Paths below are relative to the repository (`src/schedular.cpp` is
`src/src/schedular.cpp` here, headers are in `src/include/`).

## The system

| part | state | operations | what must hold |
|---|---|---|---|
| Scheduler (`schedular.*`) | queue `m_fibers`, counters of active and idle threads, `m_stopping`, `m_autoStop`, the root fiber | `schedule`, `start`, `stop`, `run`, `idle`, `stopping` | a fiber is in one place, the counters are exact, everything submitted runs, `stop` returns with nothing left |
| Fiber (`fiber.*`) | `m_state`, the saved context | `swapIn`, `swapOut`, `YieldToReady`, `YieldToHold`, `reset`, `MainFunc` | no context is entered twice, a held fiber resumes after its wake-up and only then |
| Timers (`timer.*`) | ordered set `m_timers`, `m_tickled`, `m_previouseTime`, per timer `m_next`, `m_ms`, `m_cb` | `addTimer`, `cancel`, `refresh`, `reset`, `getNextTimer`, `listExpiredCb` | a callback is cancelled or handed out, once, not early, and nobody sleeps past a deadline |
| IOManager (`iomanager.*`) | `FdContext` per descriptor, `m_fdContexts`, `m_pendingEventCount`, epoll's interest list, the tickle pipe | `addEvent`, `delEvent`, `cancelEvent`, `cancelAll`, `idle`, `tickle`, `stopping` | no wake-up is lost or doubled; the counter and epoll agree with the contexts; what is due runs, and `stop` returns with nothing left |
| Hooks (`hook.*`) | `timer_info`, the waiting fiber | `do_io`, `connect_with_timeout`, `sleep`, `usleep`, `nanosleep`, socket calls | a call cleans up behind itself, times out by its own timer, comes back |
| Descriptor contexts (`fd_manager.*`) | `m_datas` | `get`, `del` | a socket is served by the `FdCtx` that was made for it |
| Configuration (`config.*`) | `m_val`, `m_cbs`, the map of variables | `setValue`, `addListener`, `delListener`, `Lookup`, `LoadFromYaml` | listeners know the stored value, removed ones are not called |
| Logging (`qlc_log.*`) | loggers with level, formatter, appenders | `getLogger`, `addAppender`, `setFormatter`, `Log`, the listener of `logs` | loggers are what the configuration says, appenders can format |
| Sockets (`socket.*`) | `m_sock`, `m_isconnected`, two cached addresses | creation, `bind`, `listen`, `connect`, `reconnect`, `accept`, `send`, `recv`, `close` | a number has one owner, a call that holds keeps its file, the cached address is the present one |
| Addresses (`address.*`, `Endian.h`) | - | masks, byte order, text, `Lookup` | the arithmetic is the one of networks, text names its address |
| Threads, locks, utilities | - | wrappers of pthread | - |

How they interact: `IOManager` is a `Schedular` and a `TimerManager`; its `idle`
is what idle threads of the scheduler run. It asks `getNextTimer`, sleeps in
`epoll_wait`, collects expired callbacks with `listExpiredCb`, triggers events
with `triggerEvent` and hands all of it to `schedule`. A hooked call arms a
condition timer, calls `addEvent` and gives up the cpu with `YieldToHold`; the
timer's callback calls `cancelEvent`. The hooks find a socket's `FdCtx` in
`FdManager`. The configuration calls its listeners, among them the one of the
logger manager and the one that caches the connect timeout.

What is hard to test: steps of several threads between two locks (`listExpiredCb`,
`addEvent`, `setValue`, `addAppender`), a fiber that is woken before it has left
its thread, timeouts that race the answer, edge-triggered readiness, descriptor
numbers that are reused, Sockets closed under a call that holds, and shutdown. `PROJECT.json` lists these hazards with
their lines.

## Modules

| module | models |
|---|---|
| `TaskPool` | what a scheduler promises: tasks that wait, run, hold and end, and a pool that closes when none waits or runs |
| `Schedular` | scheduler and fibers: one action per stretch of `run`, `start`, `stop`, `swapIn`, `swapOut` and the yields between two observable points |
| `TimerManager` | timers, the tickle pipe, and idle threads through `getNextTimer`, `epoll_wait` and the two locks of `listExpiredCb` |
| `IOManager` | registrations of waiters, epoll's interest and ready lists, reports that were harvested and not handled yet, close and reuse |
| `IOManagerLoop` | an IOManager as a whole: `run` with the `idle`, `tickle` and `stopping` of IOManager over the pipe, deadlines and events, from the constructor to the return of `stop` |
| `Descriptors`, `FdTable`, `FdManager` | the two tables that are indexed by descriptor numbers and grow on demand |
| `SocketTables` | both tables in use by the same threads: a socket is made through the one and waited for through the other |
| `Hook` | one fiber in `do_io`, `connect_with_timeout` or a sleep, its timers with their callbacks in three steps, the event and the queue |
| `Socket` | Socket objects that fibers share, the numbers and files behind them, calls that hold on a number |
| `ConfigVar`, `Log` | one configuration variable with its listeners; loggers and appenders |
| `LogConfig` | the variable `logs`, whose listener works on the loggers operation by operation |
| `Address`, `Names`, `LogFormatter`, `Sleeps` | pure computations as operators, with what they are for: masks and the text of IPv6 addresses; the split of a host and the path of a Unix address; patterns; the lengths of sleeps |
| `Asked`, `Conversions` | the one variable those statements speak of, the computation that was asked for, and the specification that asks for every input of an instance |
| `MC...` | symmetry sets, and the definitions of loggers that are configured |
| `...Proofs` | theorems |

State keeps the names of the code (`m_fibers`, `m_tickled`, `events`, `m_cbs`);
`pc`-like variables (`pc`, `phase`, `addPc`, `setPc`) say where a thread is.
`PROJECT.json` maps every definition to its lines. A definition under a comment
that begins with "Mutant" is a plausible mistake used to confirm that a property
can fail; no specification uses one.

Choices worth knowing:

* *Callbacks.* `run` wraps a callback in a fiber and then makes the same
  transitions as for a fiber, so a callback is a task that is `Reset` before it
  is submitted.
* *Scan and idle.* A scan that finds nothing and the decision to enter the idle
  fiber or to leave are one step: nothing another thread sees lies between.
* *HOLD.* `YieldToHold` stores the state and `SwapOut` saves the context in
  separate steps, and `run` settles the state after a further one. That is where
  the race of `sched_hold_race` is.
* *A failed assertion or a null pointer* ends the process: `abort` or `crashed`
  is set and no action is enabled afterwards. Properties speak of behaviours up
  to that point.
* *The kernel.* epoll is modelled from its use: interest masks, edge triggering
  (a `MOD` re-arms), `ERR` reported whatever the mask, and a close that removes
  the descriptor from epoll.
* *Timers' order.* By deadline; equal deadlines are ordered by address in the
  code and either way in the model.
* *Restarts.* `Workers` are the ids of all threads that all calls of `start` make;
  one `start` takes `ThreadCount` ids that no thread had before. Callers of
  `schedule` name threads that exist or have existed (`Known`).
* *Appenders* belong to one logger, as everywhere in the repository, and are
  records in its list. One that is added may be new, have been given a formatter,
  or come from a logger, with the formatter it had there (`MadeAppenders`). A
  formatter that is passed as a pointer may be null or have failed to parse; a null
  one is followed by the next event (`crashed = "formatter"`).
* *IOManagerLoop* takes the parts it composes by what they promise: a task is a
  callback that is submitted, registered for an event or given to a timer and runs
  once; an event's life is `IOManager`'s subject, the set of timers
  `TimerManager`'s and fibers that yield `Schedular`'s. What it keeps in single
  steps are the wake-ups: `schedule` and its `tickle`, `triggerEvent` and the
  decrement after it, `listExpiredCb` and the `schedule` after it, the three reads
  of `stopping`, and a scan that found nothing and the increment of
  `m_idleThreadCount`. Time is what is left of every deadline and of every sleep.
  The two locks of `listExpiredCb` are two steps, and an event that the client
  registers, whose thread has no scheduler (`unowned`), ends the program when it is
  triggered, as the comment at `test/test_iomanager.cpp:14` says; events that tasks
  register have their scheduler.
* *Sockets.* Two fibers do not run inside the same Socket at once except where one
  holds; the class has no lock and no module of the repository uses it otherwise.
  A held call keeps the number it was given, whatever happens to the Socket.
  `::close` may report an error; the kernel has freed the number then and `m_sock`
  keeps it. The local address of a file changes when `::bind` or `::connect` gives
  it one (`address`, `Rename`); `getsockname` gives the one of the moment. The probing connect of `bind` for a `UnixAddress` is one of the reasons
  for which it may return early.
* *Widths.* `Address`, `Sleeps` and `SleepFor` compute with the widths of the
  code as constants, so that an instance with small widths meets every wrap-around
  and every boundary. A shift whose result C++ leaves undefined may give any value
  (`Undefined`), and `s6_addr[16]` of a full IPv6 prefix is the octet of the scope
  that lies behind the address.
* *TaskPool and entries that nobody takes.* An entry for a thread that will not be
  in `run` again before the next `start` is `Stranded`: one for a worker that has
  left, which stays so for ever, or for the caller's thread once `stop` has gone past
  `m_rootFiber->call()`, which comes back (`Gone`). `TaskPool` lets the pool close
  over such an entry and nothing else, and says of no entry that it must come back.
  `IOManagerLoop` implements the same `TaskPool`: there a callback waits while
  it is in the queue or among the callbacks that `listExpiredCb` has collected, and
  is idle while it only has a deadline or an event before it.
* *The listener of `logs`* keeps the names it has still to deal with (`todo`) and
  its position in what it does for the present one (`at`); `Work` is the sequence
  of operations for a name, `Before` the order of the two loops.
* *LogDefine* values are parsed already; `operator==` compares level and
  formatter and, as the code does, never the appenders.

## Runs

Passing runs:

| run | instance | shows |
|---|---|---|
| `sched_safe` | two starts with two workers each, and the caller, two tasks with up to two yields each, every pin, two calls of `schedule` | counters exact, every fiber in one place, pins honoured until the first yield; the scheduler implements `TaskPool` |
| `sched_live` | two starts with one worker each, and the caller, two tasks of which one holds, pins to the workers | `stop` returns and every submitted task ends, unless an entry waits for a worker that has left; a held fiber that is woken resumes, early wake-ups included, unless `stop` has begun before it was woken |
| `ioloop` | one worker, the caller and a client, two tasks, a pin, deadlines of two sleeps, ints of three bits | what is submitted, due or reported runs, every deadline is watched, `stop` returns, nothing is left behind, all until the program crashes in one of two known ways, and all of it implements `TaskPool`: a callback runs once per submission |
| `timer` | two timers (recurring or not), two idle threads, a clock of two instants, a jump of the clock at every advance | one outcome per callback, early only at a jump of the clock, never overslept, what is due is handed out |
| `io` | one descriptor, both events, three waiters, two event loops, cancel, close and reuse | counter, contexts and epoll agree, no edge is lost (`EdgesKept`, in `RegistryAgrees`), waiters are in one place; what is ready is served |
| `tables` | descriptors 32, 64, 95, two threads, two contexts per descriptor, the table sizes of the code | registered events stay reachable unless an outdated resize cut them off, no `FdCtx` is lost, a number never closed without `del` has its own |
| `hook` | two calls (io, connect, with and without timeout, or sleep), five waits, failing `addEvent`, stolen data | nothing is left behind, only own timers time out; expiry, readiness and sleep bring the fiber back |
| `socket` | two Sockets, two fibers, two numbers, three files | open numbers are held by exactly one Socket, held calls keep their file, cached local addresses are the present ones but where `bind` or `connect` kept an old one |
| `logs` | two setters, five values over the root logger and one more, a second listener, three calls of `setValue`, one use by the program | listeners and stored value agree, removed listeners are silent, appenders follow their logger and loggers the configuration, with the exceptions below, the root logger serves |
| `values` | octets of two bits, four of them in an IPv4 and three in an IPv6 address, `IntMax = 127`, texts up to six characters, hosts and services over the characters that `Lookup` looks for | masks, prefix lengths, texts, host names, patterns and sleeps are what they should be |

Runs that refute what the repository says of itself:

| run | refuted | how |
|---|---|---|
| `sched_hold_race` | the assertions of `swapIn` and the yields | with two workers a fiber that is woken between its store of HOLD and its `swapOut` is run by a second thread |
| `hook_timeout_lost` | a call with a timeout returns | the timer fires before `addEvent`, cancels nothing, and nobody ends the hold |

Found with the same modules, without a run of their own:

* `timer.cpp:158`: a `cancel` between the two locks of `listExpiredCb` empties the
  set whose `begin()` is dereferenced (`ListCrash` is reachable in `timer`); so does
  another idle thread (`Crash` in `ioloop`). The liveness properties of both runs
  are about what happens until then.
* `timer.cpp:209`: the time of the last look is not kept up while there are no
  timers, so that after an hour without timers all are handed out at once. `timer`
  reaches it; `NotEarly` excepts what is handed out by such a jump.
* `iomanager.cpp:96`: two threads resize one after the other, the second to a
  smaller size, and cut registered contexts off. `tables` reaches it;
  `RegisteredReachable` excepts what such a `late` resize cuts off.
* `iomanager.cpp:124`: an event that is registered on a thread without a scheduler
  crashes the thread that triggers it (`Crash`, `CancelCrash` in `ioloop`).
* `iomanager.cpp:102`: after close and reuse the assertion of `addEvent` fails
  (`AddEventTwice` is reachable in `io`).
* `iomanager.cpp:330`: READ and WRITE are harvested, one is cancelled, and the
  report triggers both, on the assertion of line 74 ("make sure that this fd has
  this event").
* `iomanager.cpp:237`: `stopping` reads the timers, the events and the queue one
  after the other. With `UseCaller = FALSE`, `NothingLeft` fails in `ioloop`: a
  timer that is added after the first read and before `stop` sets its flags is left
  behind, because the thread that reads then leaves. With the caller's thread
  `stop` looks once more; what remains is a thread that takes a task in its last
  scan, after its idle fiber has ended, when that task adds a timer or an event
  (the tasks in `late`).
* `iomanager.cpp:277`: with `Delays = {5}`, a deadline outside an int, `DueRuns`
  fails: the timeout becomes negative and `epoll_wait` sleeps until something else
  wakes it.
* `iomanager.cpp:292`: a task that is handed out by a timer and submits an entry for
  one thread may do so when that thread has left; `stop` then never returns, since
  nobody takes the entry and the queue is not empty (`Deserted`).
* `fd_manager.cpp:87`: nothing calls `del` when a descriptor is closed, so a reused
  number keeps the old `FdCtx`, and the new socket is not set to non-blocking.
* `hook.cpp:250`: when `addEvent` fails, or a late timeout of an earlier call wakes
  it, `connect` returns 0 for a connection in progress.
* `hook.cpp:166`, `288`: sleeps beyond an int of milliseconds wrap, to a short one
  or, in `nanosleep`, to one without end.
* `schedular.cpp:91`: a second `stop` after a second `start` resumes the ended root
  fiber; `schedular.cpp:57`: an entry for a worker of the first `start` is never
  taken and the second `stop` waits for it for ever (`Stranded`);
  `schedular.cpp:154`: a yield loses the pin. `schedular.cpp:221`: held
  fibers do not count, so `stop` returns while they hold.
* `qlc_log.cpp:67`: once the root logger is in the configuration, an event between
  the listener's `clearAppenders` and `addAppender` follows its null `m_root`
  (`RootServes` says that nothing else leads there). `qlc_log.cpp:720`: a changed
  definition of a name that stays is never applied, although the comment at line 706
  wants a new logger for it; `LoggersFollowConfig` excepts such names
  (`ChangedInPlace`) and no others. `qlc_log.cpp:94`, `256`: an appender that was
  removed and is added again keeps the format it had, and one whose own formatter is
  set to null has none; `FollowsLogger` excepts these (`kept`) until the next
  `setFormatter` of the logger.
* `socket.cpp:120`: `bind` takes the success of `::bind` for an error and its failure
  for success. `socket.cpp:159`: a connect that was woken by `close` or by
  `cancelWrite` finds no error and leaves the Socket connected, perhaps with
  `m_sock == -1`. `socket.cpp:193`: after a `::close` that reports an error the
  Socket keeps a number that may become somebody else's. `socket.cpp:280`:
  a local address that was asked for before `::bind`, `::connect` or a close is kept;
  `LocalIsOwn` excepts these Sockets (`again`). `socket.cpp:457`: `CreateUDP`
  is connected although there may be no descriptor.
* `address.cpp:15`: an IPv4 prefix of 0 shifts by the width of int, one of 1
  overflows it. `address.cpp:512`: the octets behind the prefix of an IPv6 network
  are "or"ed with 0 and stay, although `address.h:86` promises the network of the
  address; a prefix of 128 writes behind the address (`address.cpp:501`).
  `SubnetsExact` names these exceptions and is exact for everything else.
  `address.cpp:92`: an IPv6 address without brackets gives `getaddrinfo` the text
  from its first colon as the service.
* Read while modelling, outside the models: `address.cpp:276` compares with
  `memcmp` and not with `memcmp == 0`; `address.cpp:366` prints the octets of an
  IPv4 address from last to first; `address.cpp:326` accepts text that is no
  address, because `inet_pton` returns 0 for it; `address.cpp:420` writes over the
  pointer and `Create` of IPv6 always returns null.

### Bounds

Every bound is a constant that begins with `Max`, or a small set. They are large
enough for the case each property is about: two threads for every race between
two locks; descriptors of which one fits in the growth for the next and not the
other way round (`tables`); two yields
and two starts so that an entry goes through the queue again and the scheduler is
used again, with new workers; a worker and the caller in `sched_live`, where an entry
for the caller's thread would wait for `stop`, which nobody is obliged to call, so its
pins are to workers; two waits per event and a third waiter so that one registers while
another is being triggered; three calls of `setValue` so that a name comes, goes
and comes back; two numbers and three files so that a number is closed and reused
under a call that holds, and one change of address per file; a deadline of two sleeps so that a thread sleeps, wakes
and sleeps again; five waits so that two calls wait, are woken, find the data gone
and wait again. A clock of two instants separates before, at and after a
deadline, and with `Gap = 0` a look at each of them is a jump of the clock; `reset` to another period needs more and is covered by the proofs, which
have no bound on the clock's values. Symmetry is used in the runs without
liveness properties, over threads, tasks, Sockets, numbers or setters that no action
tells apart. `socket` explores up to the first `::close` that reports an error.

The pure computations are tried on every input of their instance. Octets of two
bits have every case of a mask that ends inside, at and between octets; ints of
eight bits and four milliseconds to a second wrap where the code does.

Deadlock checking is off but for `socket`: with bounded clients every system here may come to rest,
and so does the real one when nobody calls it. Progress is stated as liveness.

### Fairness

`sched_live`: weak fairness of each thread in `run`, of `stop`, and
of the event an armed task waits for. Threads are kernel threads, the scan skips
nothing for ever in a bounded queue, and `stop` runs in a thread of its own. No
fairness on clients. `timer`: each idle thread, a thread inside `addTimer`, the
clock. `io`: event loops and resumed waiters; none on users and files. `hook`: the
fiber's thread, timer callbacks and the event loop; none on the descriptor.
`ioloop`: each thread in `run`, the calls of the client and of `stop` that have
begun, and time; none on new calls, on cancelling and on descriptors.

## Theorems

Proved for every value of the constants, from the named `ASSUME`s only (finite
sets of workers and of descriptors, descriptors that are numbers, distinct model values, natural
bounds, table sizes of at least 2, because `1 * 1.5` is 1). A theorem that needs
more says so in its own `ASSUME`; those hypotheses are given here. The invariants
of `IOManagerLoopProofs`, `FollowInv`, `EdgeInv`, `WakeInv`, `HoldEnds` and
`TimeoutPending` were found and checked with TLC on small instances before they were
proved.

`SchedularProofs`

* `TypeOK` and `CountersExact`. The induction needs `OwnerInv`: before `start` and
  after `stop` no thread is in `run`, and the caller's thread is there only while
  `stop` is in `m_rootFiber->call()`. Counting is by lemmas about moving one thread
  between the sets that are counted.
* `PinHonoured`, `OnePlace` and the assertions of `Fiber`, all from `PlaceInv`. It
  speaks of *regular* fibers, those that have not held yet: one is in the queue at
  most once (`RegularOnce`), or in the hands of one thread (`RegularInHand`), its
  `m_state` fits where it is (`RegularState`), and until its first yield its entry
  carries its pin (`PinKept`). `PinHonoured` follows without a hypothesis;
  `OnePlace` for `Holders = {}`, where every fiber is regular.
  `OnlyHeldFibersRace` says, without a hypothesis, that the assertions hold until a
  first fiber has held, and `AssertionsHoldWithoutEvents` draws the conclusion for
  schedulers without holders: what `sched_hold_race` refutes needs an event.
* `SchedularImplementsTaskPool`: the refinement, for `Holders = {}` and a scheduler
  that has a thread at all (`UseCaller \/ ThreadCount # 0`). Each step maps to a step of
  `TaskPool` or a stutter. The hard one is the last step of `stop`: that nothing
  waits then needs `LifeInv` (no thread leaves `run` before `stop` has set its
  flags), `WaitInv` (a READY fiber is in the queue, for any thread, or in hand),
  `KnownInv` (an entry names a thread that was started, so `start` never makes the
  thread an old entry waits for) and `LastOut`: the last thread to leave leaves no entry that any thread could take, although the active counter goes down before a yielding fiber
  is back in the queue.
* What survives fibers that hold. `WakeUpsAreQueued`, for any threads and until an
  assertion fails: a fiber whose event has fired is in the queue or in the hands of
  a thread that is about to enter it (`WokenIsQueued`), the safety half of
  `WokenResumes`. `WakeInv` adds what that needs: a context is on one cpu at most
  (`CpuOnce`), so a store of READY or of an end is made by the thread that executes
  the fiber, and one that has registered executes or holds (`Registered`), so
  `run` never drops its entry as ended. `OneThreadNeverRaces`: with one thread in
  `run` at a time (`ThreadCount` is 0, or 1 without `UseCaller`) the assertions of `Fiber` hold and no live context is entered,
  whatever fibers hold and whenever events fire: what `sched_hold_race` refutes needs an event *and* a
  second thread. `AloneInv`: the other threads have nothing in hand, and what
  the runner has taken does not execute until it enters it.

`IOManagerProofs`: `RegistryAgrees` and `WaiterInOnePlace`, for any finite set of
descriptors. Neither is inductive alone, their conjunction `IOInv` is: the waiter
that `triggerEvent` schedules is there because the context matches the event, and
two events never name one waiter. Counting places `<<fd, event>>` is by
`RemovePlaces`: a report takes as many from the counter as it triggers. That no
edge is lost is `EdgeInv`: an event that is waited for and ready is on epoll's ready
list or in a report that is still to be handled. It holds because every change of a mask is a `MOD`
or `ADD`, which puts a ready descriptor on the list again (`CtlKeeps`), and because
what a report leaves registered it registers anew in the same step; `OpenMatches`
is what it needs of closed and reused numbers.

`IOManagerLoopProofs`

* `StopLeavesNothing`: `NothingLeft` when `UseCaller` holds, for any workers,
  callbacks and delays. `LeftInv` is the argument: whatever is left among the timers,
  the events or in the queue is still ahead of some thread (`SeesTimers`,
  `SeesEvents`, `SeesQueue`: it has not read that part of `stopping` yet, or will
  start over) or of the owner on its way through `stop`. A thread that leaves after
  the third read has seen the queue empty with nobody active, so what was added
  behind its first two reads was added by a task that is no longer running, on a
  thread that will look again. Under it lie `ControlInv` (where threads may be, seen
  from the owner and from the idle fiber), `CountInv` (`m_pendingEventCount` counts
  registered events and decrements that are owed, `m_idleThreadCount` the threads
  in `idle`) and `HandInv` (a callback outside all containers is in a thread's
  hands). Without `UseCaller` it is false: see `iomanager.cpp:237` above.
* `TimersStayWatched`: `TimersAreWatched`, when `UseCaller` holds, there is a worker,
  and delays and `MAX_TIMEOUT` survive the conversion to `int` (`Fits`). All three are needed:
  `IOManager(1, true)` has no worker, so nobody sleeps or wakes before `stop`; and
  a delay beyond an `int` makes a sleep without end. The invariant is a pair.
  `WatchedInv`: behind every timer somebody is `Roused` (up, or about to be woken
  by the pipe, or by a `tickle` under way that will find an idle thread) or sleeps
  no longer than the deadline. `ToldInv`: while `m_tickled` suppresses announcements
  somebody is `Roused`. `RousedStays` is the lemma that carries it: once somebody is roused,
  somebody stays so until a thread has asked `getNextTimer`.
* `IOManagerImplementsTaskPool`: the refinement of `TaskPool`, without any
  hypothesis: with and without `UseCaller`, for any workers, callbacks and delays.
  `OnceInv` is the argument. `QueueOnce`: no callback is in the queue twice, and
  those in it are exactly the ones whose place is the queue. `HandOnce`: a callback
  that was collected or runs is in the hands of one thread, once. `CallerOut`: without
  `UseCaller` the owner never enters `run` and never asks `stopping`. So each of the ways into the queue (`schedule`, an expired timer, a
  report, `cancelEvent`) finds a callback that no other way has taken, and the
  return of `stop` finds the queue empty but for entries that are stranded.

`TimerManagerProofs`

* `TypeOK`, which contains `m_ms <= m_next`, the fact that keeps the unsigned
  subtraction of `reset` from wrapping; `SetIffCallback`; `OneOutcome`, from
  `OutcomeInv` (a timer that is not inserted yet, or is in the set as a one-shot, has
  had neither outcome) and `BuiltInv`; `NoOversleep`, from `TickledInv`: while
  `m_tickled` is set somebody is awake or an announcement has not been consumed yet.
* `EarlyOnlyAfterGap`: a callback is handed out before its deadline only by a thread
  that read the clock more than `Gap` after the last look, which is `NotEarly`, for
  every `Gap`.

`SocketTablesProofs`

* The IOManager's table: its types, and `RegisteredReachable` for any descriptors.
  `ReachInv`: a resize that is not `late` only adds slots, so a context that was not
  cut off by a late one, held by a thread or registered, is the one in its slot.
* FdManager's table: types, `NeverLost` and `ContextIsOwn` without any such
  condition, because `get` looks at the size again under the write lock. `SetUpInv`
  and `EmptyUnlessOpened` describe slots between `socket()` and the return of `get`.
* The composition implements the specifications of both tables, so these hold of it
  (`SocketsKeepBothTables`).

`HookProofs`: `TypeOK` (the fiber is queued at most once), `NothingLeftBehind`,
`TimedOutByOwnTimer`. `HookInv` relates the fiber's place to its registration
(`HoldInv`), its timers to its calls (`TimerInv`) and `cancelled` to the callback
that set it (`CancelInv`). Over it are proved the safety halves of what the
run checks under fairness. `HoldsAreEnded`: a fiber that is about to hold, or holds, is in
the queue, or its event is registered, or the timer of its sleep has yet to schedule it.
`TimeoutsArePending`: while a call with a timeout waits its timer is armed or its callback
under way, unless a timer of its own has marked the call as cancelled; so a
timeout is lost only after it has fired, which is the case that `hook_timeout_lost`
shows. `SleepsAreExact`: `SleepsAsAsked` for every `Kilo`, every `IntMax` and every
time that fits. It is arithmetic with `Kilo` and `IntMax` as variables, so
products are taken apart by lemmas about multiplication and division.

`SocketProofs`: `NumbersAreHeld`, `WaitsOnOwn` and `LocalIsOwn`, for any Sockets,
fibers and numbers. They are proved together: a call stays on its file (`HoldsOwn`)
because nobody but its Socket can give up the number, and the number is not given
out again because it is held. Of the addresses Sockets are made for: `HostsAreSplit`,
`HostIsSplit` for nodes and services of any length over any characters, and
`PathsAreKept`, `PathIsKept` for any path and any `PathLen`. `memchr` is the minimum
of the places of a character, so the proofs say where the first and the second colon
and the first closing bracket of a text are that was put together; no induction is needed.

`LogConfigProofs`

* `DeletedIsNotTold` and `ToldIsValue`. `TellInv`: a setter has listeners before it
  only under the read lock, and they are registered. `ToldInv`: without overlap one
  setter is under way and whoever it has called knows the value it will store.
* `FollowsLogger`, from the shape of the appender lists, with the formatters that
  came with an appender (`kept`) told apart from those the logger gave. `RootServes`, from
  `RootInv`: as long as nobody took the root logger's appenders away and the
  configuration has not named it, it has one.
* `LoggersFollowConfig`. It speaks of moments when no `setValue` is under way, and
  the listener works one operation at a time, so `FollowInv` says for each name
  how far a setter has come with it: a name outside `todo` is `Settled` as before or
  `Done`, the first one in `todo` is `Partly` set up as far as `at` says (`UpTo`).

Model-checked only:

* everything under fairness (`StopCompletes`, `SubmittedFinishes`, `WokenResumes`,
  `DueRuns`, `StopReturns`, `DueIsHanded`, `ReadyIsServed`, `ExpiryEndsCall`,
  `SleepReturns`, `ReadyEndsWait`): liveness is out of the prover's reach;
* `SubnetsExact` and the half of `TextNamesAddress` about IPv6 texts, whose operators
  are bitwise or folds over octets and compute powers of two, and `PatternReadsBack`,
  whose parser is recursive: what they compute for every input needs an induction over
  data;
* `TextNamesAddress` as a whole therefore; its other half, `PathIsKept`, is proved.

The theorems about refinement are about safety: `TaskPool` has no fairness.

## Not modelled

* The map of configuration variables (`Lookup`, `LookupBase`, `Visit`) and the
  conversions from and to YAML. Every variable of the repository is made by a
  static initialiser, before there are threads.
* Stacks and contexts of fibers, and fibers without a scheduler.
* The text that loggers write, and their files.
* `fcntl`, `ioctl` and `setsockopt` of the hooks, which only keep flags of an
  `FdCtx`; options and timeouts of a Socket, which are passed on.
* Addresses where the code is a call of `getaddrinfo`, `inet_pton` or `getifaddrs`.
* `Thread` and the locks, which wrap pthread: locks appear as atomicity.
* `TcpServer`, `Stream` and HTTP are named in the repository's README and have no
  source.

## What is left

The modules above are the whole of the plan but for the parts under "Not
modelled". Work that would follow the same lines:

* `Config`: `Lookup`, `LookupBase` and `Visit` with their locks, and `LoadFromYaml`
  over a tree of names, if variables are ever made after `main` has begun.
* `SchedularImplementsTaskPool` with fibers that hold. It is false on several threads
  (`sched_hold_race`), and on one `TaskPool` would have to say what becomes of a fiber
  that is woken after `stop`, which leaves it in the queue (`schedular.cpp:221`).

# A TLA+ verification of libsimplenet

libsimplenet is a C++20 networking library for Linux: coroutine tasks scheduled
on a single-threaded event loop (epoll, or io_uring), non-blocking TCP, timed and
cancellable operations, a buffered writer with backpressure and a DNS resolver.
This directory models the library's two schedulers, its operations, writer,
resolver and sockets and its concurrent example programs, model-checks them with
TLC and proves the safety properties of all of these but the parsing of endpoints
with TLAPS.

Run from this directory: `tlc -config EventLoop.cfg MCEventLoop` (any `.cfg` with the
MC module of the same prefix) and `tlapm EventLoopProofs.tla` (any module
with theorems). Paths below are relative to the repository.

## 1. The system

| Part | Source | State and operations | Who runs it |
|---|---|---|---|
| core | `src/core`, `include/simplenet/core` | `result`, `error`, `unique_fd`: values and single-owner RAII | caller |
| blocking TCP/UDP | `src/blocking` | one descriptor per object, one system call per operation | caller |
| non-blocking TCP | `src/nonblocking/tcp.cpp` | accept, connect/finish_connect, read_some, write_some, shutdown_write | loop thread |
| epoll reactor | `src/epoll/reactor.cpp` | add, modify, remove, wait | loop thread; the kernel moves underneath |
| io_uring reactor | `src/uring/reactor.cpp` | poll_add, poll_remove, submit, wait | loop thread |
| task | `include/simplenet/runtime/task.hpp` | coroutine frame, continuation, result; spawn, co_await, final_suspend, destroy | loop thread |
| event_loop | `src/runtime/event_loop.cpp` | ready queue, waiter slots with two sides, counters, deadline cache, stop flag and eventfd | loop thread; `stop()` from any thread |
| uring_event_loop | `src/runtime/uring_event_loop.cpp` | the same over one-shot polls with tokens | as above |
| engine, io_context, ip_tcp | `src/runtime/engine.cpp`, headers | forward to the selected loop | as above |
| io_ops | `src/runtime/io_ops.cpp` | wait for readiness, accept/connect/read/write, timed variants, sleep | coroutines |
| cancel | `runtime/cancel.hpp` | shared atomic flag | any thread sets, coroutines poll |
| queued_writer | `src/runtime/write_queue.cpp` | buffers, offset, byte count, watermark state; enqueue, flush, graceful_shutdown | coroutines of one loop |
| resolver | `src/runtime/resolver.cpp` | job queue, worker thread, shared state polled by a coroutine | two threads |

A coroutine that would block suspends in `readiness_wait_awaitable`, whose
`await_suspend` calls `arm_waiter`. The loop registers the descriptor
edge-triggered and resumes the coroutine, through the ready queue, when the
kernel reports it or its deadline has passed. Everything else in `runtime/` is
built from such waits, from `co_await` of child tasks and from the token.

The two loops are interchangeable behind `engine` and `io_context`; what a
coroutine may rely on with either is the module `Scheduler`.

## 2. Modules

| Module | Contents |
|---|---|
| `Scheduler` | abstract: what a backend promises its coroutines |
| `Task` | life of a coroutine frame and its continuation, as actions for a scheduler to use |
| `CoAwait` | `co_await` and ownership of tasks on a scheduler |
| `EpollReactor` | results and effects of `epoll_ctl`, the kernel's ready list, conditions, close and reuse of descriptors |
| `EventLoop` | extends `Task` and `EpollReactor`: `event_loop`, the tasks it runs, `stop()` from another thread, peers and clock |
| `EventLoopScheduler` | refinement mapping from `EventLoop` to `Scheduler` |
| `UringReactor` | submission queue, one-shot polls on open files, completion queue |
| `UringLoop` | extends `Task` and `UringReactor`: `uring_event_loop` |
| `UringLoopScheduler` | refinement mapping from `UringLoop` to `Scheduler` |
| `Sleepers` | the callers of `async_sleep` on a thread |
| `Sleep` | `async_sleep` over the one timerfd of a thread |
| `Connect` | `async_connect` and `async_accept` against handshake and backlog |
| `Transfer` | the reads and writes, exact, timed and blocking, over one connection |
| `WriteQueue` | `queued_writer` and the timed write it awaits, producers, token, peer and clock |
| `Resolver` | `async_resolve`, the worker thread, its queue and destructor |
| `ParseEndpoint` | `parse_ipv4_endpoint` and `format_endpoint` |
| `Descriptors` | `unique_fd` and the functions that make sockets, system call by system call |
| `Options` | connections and iterations, the options of the benchmarks |
| `EchoBench` | `perf_async_echo` and `perf_tcp_echo`: main, runtime thread, sessions |
| `ConnectionChurn` | `perf_connection_churn`: main and server thread |
| `MCEventLoop`, `MCUringLoop`, `MCWriteQueue` | model values and symmetry for TLC |
| `MCResolver` | instances of `Resolver`, `Sleep` and `ParseEndpoint` for TLC |
| `MCStream` | `Connect` and `Transfer` side by side for TLC |
| `MCPrograms` | instances of `Descriptors`, `CoAwait`, `EchoBench` and `ConnectionChurn` for TLC |
| `EventLoopProofs` | theorems on `EventLoop`: types, where coroutines are held, who owns frames, wakeups, the refinement |
| `EventLoopCounters` | extends it: counters, sleeping and the end of `run()` |
| `UringLoopProofs` | theorems on `UringLoop`: types, what a submission and a raised condition do, tokens |
| `UringLoopTasks`, `UringLoopRing` | extend it: coroutines, counters and the refinement; where polls are and what they may report |
| `OperationProofs` | theorems on `Resolver`, `Connect` and `Transfer` |
| `ProgramProofs` | theorems on `Descriptors`, `CoAwait`, `WriteQueue` and `EchoBench` |
| `ChurnSleepProofs` | theorems on `ConnectionChurn` and `Sleep` |

Operators whose comment starts with "mutant" are plausible bugs of the definition
that follows them. No specification uses them; substituting one must make its
property fail.

### EventLoop

Variables are the members of `event_loop` without the trailing underscore. The
map `waiters_` becomes the functions `handle`, `deadline` (per descriptor and
side) and `registered_mask`; an absent slot is one without handles and with mask
`{}`. `pc` is the position of the loop thread, listed with line numbers in the
module's header; `running` means that some coroutine's body executes.

| Actions | Code |
|---|---|
| `RunStart`, `LoopTop`, `LoopCheck`, `DrainPop`, `AfterResume`, `LoopExit` | `run()` between its blocking points |
| `ExpireStart`, `ScanSlot`, `ScanEnd` | `process_expired_waiters`, one slot at a time in any order (an `unordered_map`) |
| `Block`, `WaitReturn`, `WaitTimeout`, `WaitInterrupted` | the idle tests, the computation of `timeout_ms`, `epoll_wait` and `EINTR` |
| `DispatchWake`, `DispatchFd` | `consume_wakeup`, `process_ready_event` |
| `Spawn`, `TaskAwait`, `TaskFinish` | `spawn`, `co_await child`, `final_suspend` |
| `Arm`, `ArmElapsed`, `ArmFails` | `arm_waiter`: success, timeout of zero or less, roll-back |
| `TaskStop`, `StopStore`, `StopWrite` | `stop()` by a task, and by another thread as its two separate effects |
| `TaskIo`, `Environment`, `Tick` | reads, writes, `close`, `socket`; peers; `steady_clock` |
| `Recreate` | destruction of the loop with tasks left, and a new loop |

Steps of the loop thread that touch only its own data are grouped up to the next
point where another thread, the kernel or the clock can be seen.

Abstractions: what a task computes is arbitrary (any operation in any order); a
result is `ok`, `ETIMEDOUT` or an errno; `EPOLLHUP` goes with `EPOLLERR`. An
`arm_waiter` refused with `EBUSY` changes nothing and is a stutter. An error of
`epoll_wait` other than `EINTR` makes `run()` return at once and is left out, as
are failures to create the epoll or event descriptor.

### WriteQueue

Bytes are numbered in the order in which `enqueue` accepted them, and a buffer is
the number of bytes before it and its size. `pc` is the position of the one flush:
`loop` and `try` are running code, everywhere else it is suspended and producers
may run. A suspension includes the start and the end of every awaited task,
because the scheduler queues both. Timers are counted down to their deadlines.
One flush runs at a time, as in every use in the repository: nothing in
`queued_writer` guards against two, and two would send the same bytes twice. The
checks of an invalid stream (`EBADF`) are left out.

### The other modules

- **UringLoop.** As EventLoop, with `waiters` a record per side (handle, deadline,
  token), `inflight_polls` from tokens to sides, and the ring of `UringReactor`:
  `sq` (not yet submitted), `polls` (armed in the kernel, on an open file, so that
  they outlive a `close`), `cq`. Polls that one event completes enter `cq` in any
  order (`Orders`). A poll fires once; a removed poll completes with
  `ECANCELED` and the removal with a completion of its own. Tokens are not reused:
  `MaxToken` bounds the waits of a behaviour instead of the 64-bit counter.
- **Scheduler** has the coroutine's view only: `life`, `parent`, the ready FIFO, the
  set `parked` and the `outcome` of a wait. Both mappings read these off the
  frames, the registrations and `wait_results_`.
- **CoAwait.** `running` is the coroutine the thread is in and `ready` the queue of
  the scheduler: `co_await` queues the child, `final_suspend` the parent. The handle
  in the awaiter, the task object and the frame are kept apart. A `co_await` of an
  empty or moved-from task does not suspend; it throws in the body (`AwaitEmpty`).
- **Sleep** is the ready queue of one thread and its one timerfd: a sleep passes
  through the queue for each `co_await` below it, and others run in between.
- **Connect.** The kernel's handshake and accept queue are external; `SO_ERROR` is
  read and cleared by `finish_connect`. A caller's first write is part of the model
  so that what a too early success leads to can be stated.
- **Transfer.** Bytes are numbered; the socket buffer takes and gives any part of
  what it is offered. `async_read_some` and `async_write_some` are one round of the
  loops; the timed operations wait in slices of at most `MaxSlice`, cut to whole
  milliseconds and of one at least. A wait that fails by itself is an action of its
  own (`WaitFails`), to which no fairness applies.
- **Resolver.** Test and block of `cv_.wait` are one step under the mutex, the push
  and its `notify_one` are two. `getaddrinfo` returns any status or list. `Alone` are the
  requests on whose thread no other sleep is in flight; the sleep of any other need
  not end (section 4).
- **ParseEndpoint** scans one character a step with the 32-bit accumulator scaled
  to `Width`; the reference `Meaning` reads the text in one go.
- **Descriptors.** Each function that makes a socket is its sequence of system
  calls; any may fail, and the kernel may give a closed number to another thread.
- **EchoBench, ConnectionChurn.** A thread or session per connection, the failure
  flag and the message under its mutex as the two steps they are, the backlog of
  the listener, `stop()` and joins. In `ConnectionChurn` the kernel grants at most
  `SoMaxConn` of the backlog asked for; the number of connections fits in an `int`.

## 3. Model checking

| Run | Configuration | What it shows |
|---|---|---|
| `loop` | 3 tasks awaiting one another, both sides of a descriptor that tasks close and reopen, a batch of one event, `stop()` from another thread | `CountersExact`, `NoOversleep`, `NoLostWakeup`, `SuspendedOnce`, `FramesOwned`, `NoTaskLeftBehind`, `WakeHasCause`; the epoll loop implements `Scheduler` |
| `live` | 2 tasks, fair scheduling | `StopReturns`, `TimedWaitEnds`, `ReadyWaitEnds` |
| `uring` | 2 tasks, a descriptor that tasks close and reopen with polls under way, ring of one entry, `io_uring_submit` may fail at every call site | `CountersExact`, `PollInFlight`, `WakeHasCause`, `WakeKept`: late, cancelled and stale completions harm no wait |
| `uring_live` | 2 tasks, fair scheduling, no failing call | `StopReturns`, `TimedWaitEnds`; the io_uring loop implements `Scheduler` |
| `writer` | watermarks 0 and 2 in any combination, partial writes, timeouts −1, 0 and 2 ms, fair scheduling | `SentInOrder`, `QueuedExact`, `Hysteresis`; `FlushEnds` although the peer need not read; `BackpressureClears` if it does |
| `resolver` | 2 requests, worker, destructor, cancellation; one and two sleeps at a time; all texts of up to 5 characters | `NoLostJob`, `OwnAnswer`, `ResolveEnds`, `JoinReturns`; `NotEarly`, `SleepEnds`; `ParsesExactly` |
| `stream` | 2 clients, 2 acceptors, backlog of one, with failing calls and without; every read and write, asynchronous with resets, and blocking | `RefusalReported`, `WorkingServed`; `Delivered`, `TimedEnds` |
| `programs` | 2 threads, 2 objects and 3 descriptor numbers; 4 coroutines; the examples with 3 connections and 2 rounds, with failing calls and without | `SingleOwner`; `AwaitHasResult`, `FramesOwned`; `Verdict`, `JoinReturns`, `ChurnEnds` |
| `lost_stop`, `stale_slot`, `flush_timeout`, `late_enqueue` | | one violated property each, section 4 |

`MCResolver`, `MCStream` and `MCPrograms` put several instances side by side. The
constant variable `part` says which of them a behaviour is about; only its
variables change, and fairness and liveness are claimed part by part: of `Sleep`
for one sleep at a time, of `Connect` and `ConnectionChurn` without failing calls,
of `EchoBench` over coroutines with failing connects and over threads without
failures.

Deadlock checking is on for the loops and the writer: some step is always possible.
It is off in the other runs, where the modelled program ends or its bound is reached
with nothing left to do: the sleeps, transfers, requests and texts of a behaviour
are finitely many, and the examples terminate.

**Bounds.** Two registrations on one descriptor are needed for the shared mask,
`MaxEvents = 1` for a batch that leaves the descriptor or the eventfd for later,
three tasks for a chain of awaits next to an independent root. `TicksPerMs = 2`
makes the truncation to milliseconds differ from the exact time. The one timeout of
`loop` is 1 ms, not above its `IntMax`, and a wait can be given it at time 0 only:
the clamp of `timeout_ms` to an `int` and waits with different deadlines are covered
by `NoOversleepHolds`, for every value, and not by this run. `MaxTime` stops the clock and refuses deadlines
beyond it, so every accepted deadline can pass. For io_uring, `Depth = 1` makes the
queue full at every second entry and `MaxToken = 3` allows a wait, its timeout and a
second wait on the same side while the first poll is still under way; `uring_live`,
where liveness is checked, has `MaxToken = 2`: one poll armed by each loop a behaviour
makes, besides that of the eventfd. In the writer
`MaxBytes` bounds the bytes accepted in a behaviour, enough for two or more buffers
with a partial write and a retry; `Mark` gives zero, equal and swapped marks. In
`stream` a timeout of 2 ms, slices of 1 and two ticks a millisecond give slices that
are capped and slices that outlast the deadline. The slices are 1–2 ms instead of
100 and 20, so that they are shorter than the timeouts. `MaxCalls = 3` sleeps are
started in a behaviour: two are enough for one to disturb another. `Width` is 660 for ports up to 65: as with 2^32 and 65535, a port with one
more digit still fits the accumulator, and a range test that comes later than that
meets a wrapped one. A backlog
of one makes a second handshake wait. Handles are symmetric; symmetry is not used
where liveness is checked.

**Fairness.** `WF(LoopStep)`: the thread that called `run()` is scheduled.
`WF(Suspend)`: a coroutine body that can go on does not run for ever without
suspending; the loop is cooperative, so this is an assumption on tasks.
`WF(StopWrite)`: a thread inside `stop()` reaches its write. `WF(Tick)`: time
passes. Both loops have the same assumptions. In the other modules each thread or
queued coroutine is scheduled when it can run, `getaddrinfo` returns, and a
handshake ends one way or the other. In `Resolver` the sleeps of the requests in
`Alone` end, which `SleepEnds` shows for one sleep at a time on a thread; nothing is
assumed of the sleeps of the others, so `ResolveEnds` is about `Alone` (`r1` of two).
In `Transfer` a wait that is ready or over is noticed; no reset, cancellation or
failing wait is ever forced, so `TimedEnds` rests on the slices and the deadline
alone. `ChurnEnds` has the premise `SoMaxConn >= Connections`: with a smaller limit
of the kernel `main()` may block in `connect` while the server thread waits for the
first token. Nobody has to call `run`, `stop`, `spawn`,
`enqueue`, `flush`, `async_sleep` or `async_resolve`, and peers need not act.
`ReadyWaitEnds` has the premise that the ready queue drains again and again, because
`run()` polls only when the queue is empty: tasks that always have work starve I/O. Timers need no such premise
(`TimedWaitEnds`). `StopReturns` of the io_uring loop has the premise that the
eventfd is watched; without it the property fails (section 4).

## 4. Where code and documentation disagree

- **`lost_stop` / `StopHonoured`.** `run()` clears `stop_requested_` when it
  starts (`event_loop.cpp:61`). A `stop()` stored just before is forgotten: the
  eventfd wakes the loop once and it blocks again. The header says the loop runs
  "until all root tasks complete or `stop()` is requested".
- **`stale_slot` / `ArmReachesKernel`.** When `epoll_ctl` fails on a closed
  descriptor the slot is not erased and keeps its mask (`event_loop.cpp:366`).
  After the next `run()`, a wait on the reused number needs no change of mask, so
  the kernel is never told and the coroutine waits without being registered.
- **`flush_timeout` / `TimeoutHonoured`.** `flush` writes in slices of at most
  100 ms and returns a slice's `ETIMEDOUT` as its own (`write_queue.cpp:94`): a
  flush with two seconds fails when the peer stalls for 100 ms.
- **`late_enqueue` / `ShutdownDrained`.** Between the end of its flush and the
  resumption of `graceful_shutdown` a queued producer may run; its bytes are
  accepted and then cut off by `shutdown_write` (`write_queue.cpp:120`).

Four more behaviours that a caller may not expect follow from the code and are built
into the models, which state their properties around them:

- The one-shot poll on the eventfd is armed again only if no stop is requested
  (`uring_event_loop.cpp:447`), and `run()` does not arm it when it starts. After a
  `run()` of the io_uring loop that ended by `stop()`, `stop()` cannot end the next
  one once it blocks. `StopReturns` has the premise that the eventfd is watched, and
  `WakeKept` says that nothing but a stop gives it up.
- The sleeps of a thread share one timerfd with one read slot (`io_ops.cpp:277`): the
  second of two concurrent sleeps may fail with `EBUSY`, and a sleep that was woken
  may read the expiration of the timer that another has re-programmed before the
  other's wait is armed, which then waits on a disarmed timer. An `async_resolve` that
  shares its thread with another sleep can so wait for ever although its answer is
  there. `SleepEnds` and `ResolveEnds` are about one sleep at a time on a thread;
  `NotEarly` holds for two.
- `async_connect` asks for `SO_ERROR` at once (`io_ops.cpp:149`). It is 0 while the
  handshake is in progress, so the stream returned need not be connected. The error
  is not lost: the first write reports it (`RefusalReported`).
- Without a scheduler a child resumes its parent from `final_suspend`
  (`task.hpp:122`) inside the parent's `await_suspend`. `CoAwait` is about coroutines
  on a scheduler, as all those of the library are.

## 5. Proofs

The theorems need no bounds: they hold for arbitrary sets of handles, descriptors
and timeouts, any clock rate, clamp, batch size and ring depth, any watermarks,
slices and buffers, any number of requests, clients, threads and owners, any number
of sleeps, connections and rounds. They assume only the named `ASSUME`s of the
modules: finite `Handle` and `Fd` (epoll loop), natural timeouts (integers in the
writer), positive `TicksPerMs`, a `Null` that is no handle, outcome, side or
request, a `-1` that is no descriptor, a `None` that is no acceptor or sleeper,
finitely many sleepers, natural buffer sizes of `Transfer`, and at least one
connection and one iteration, which the option parsing of the benchmarks requires.

| Theorem | Module | States |
|---|---|---|
| `TypeCorrect` | EventLoopProofs | `Spec => []TypeOK` |
| `SuspendedOnceHolds` | EventLoopProofs | a suspended coroutine is held exactly once |
| `FramesOwnedHolds` | EventLoopProofs | every live frame has one owner |
| `CountersExactHolds` | EventLoopCounters | the three counters are exact |
| `NoOversleepHolds` | EventLoopCounters | the loop never sleeps past a deadline |
| `NoTaskLeftBehindHolds` | EventLoopCounters | `run()` succeeds only when nothing is left |
| `NoFalseDeadlockHolds` | EventLoopCounters | `run()` never reports `EDEADLK` |
| `NoLostWakeupHolds` | EventLoopProofs | arming loses no edge |
| `WakeHasCauseHolds` | EventLoopProofs | no wake without its event or deadline |
| `LoopImplementsScheduler` | EventLoopProofs | `Spec => ImplementsScheduler` |
| `TypeCorrect` | UringLoopProofs | `Spec => []TypeInv` |
| `SuspendedOnceHolds`, `FramesOwnedHolds` | UringLoopTasks | as for the epoll loop |
| `CountersExactHold` | UringLoopTasks | the counters and `inflight_polls_` are exact |
| `UringLoopImplementsScheduler` | UringLoopTasks | `Spec => ImplementsScheduler`, failing calls and closed descriptors included |
| `PollInFlightHolds` | UringLoopRing | the poll of every open wait is somewhere from which it comes back |
| `WakeHasCauseHolds` | UringLoopRing | a wait ends with its own completion or past its own deadline |
| `WakeKeptHolds` | UringLoopRing | the eventfd stays watched until a stop |
| `SingleOwnerHolds`, `TypeOKHolds` | ProgramProofs | every open descriptor has one owner |
| `AwaitHasResultHolds` | ProgramProofs | a coroutine suspended in `co_await` finds its child finished, with a result |
| `FramesOwnedHolds` | ProgramProofs | every frame is owned by a task object, its parent or the scheduler |
| `WriterCorrect` | ProgramProofs | `TypeOK`, `SentInOrder`, `QueuedExact` of the writer |
| `BackpressureCorrect` | ProgramProofs | `Hysteresis`, `Bounded` |
| `TypeOKHolds`, `JobsExactHolds` | OperationProofs | every job is in one place |
| `NoLostJobHolds` | OperationProofs | the worker never sleeps over work |
| `DrainedHolds` | OperationProofs | the destructor leaves no job unanswered |
| `AnsweredOnceHolds` | OperationProofs | an answer is final |
| `OwnAnswerHolds` | OperationProofs | an answer is the asker's own and has only usable endpoints |
| `RefusalReportedHolds` | OperationProofs | reading `SO_ERROR` early loses no refusal |
| `AcceptedOnceHolds` | OperationProofs | an established connection is queued once or accepted |
| `DeliveredHolds` | OperationProofs | bytes arrive in order and once; a whole transfer is whole; a timed one that fails has moved nothing |
| `EchoVerdictHolds` | ProgramProofs | `EchoSpec => []EchoVerdict` |
| `ChurnVerdictHolds` | ChurnSleepProofs | `Spec => []Verdict` |
| `HeldOnceHolds` | ChurnSleepProofs | a sleep in flight is queued once or holds the slot of the timer |
| `NotEarlyHolds` | ChurnSleepProofs | no sleep succeeds before its own deadline |

The type invariants, `NoFalseDeadlock`, `Bounded`, `JobsExact`, `Drained`,
`AnsweredOnce`, `AcceptedOnce`, `HeldOnce` and, of `UringLoop`, `SuspendedOnce` and
`FramesOwned` are stated by theorems only; the other properties in the table are
checked by the runs as well, `EchoVerdict` and the `Verdict` of `ConnectionChurn`
together as `Verdict` of `MCPrograms`.

The inductive invariants of EventLoop all build on `TypeInv`, `CountInv` also on
`TaskInv`, and `IndexInv` and `EndInv` on `CountInv`:

- `TypeInv`: `TypeOK` and that `current` names a coroutine exactly while one runs.
- `TaskInv`: `SuspendedOnce` and `FramesOwned` depend on each other. Scheduling a
  continuation queues it once only because it awaits a single child, and freeing
  a child on resumption is safe only because a finished frame is in no queue.
  They also need that one frame runs at most and that only waiting frames have
  results.
- `CountInv`: `CountersExact`, and that a deadline belongs to a registration, so
  that clearing a registration changes both counts together.
- `IndexInv`: the cached `next_deadline_` is a lower bound of all deadlines even
  while it is dirty, and during a scan the scan's own minimum bounds the slots
  already visited. `NoOversleep` follows because truncation rounds down. The steps
  are proved from two consequences of `CountInv`.
- `EndInv`: chains of awaits have an end. `Grounded` says so without recursion:
  every non-empty set of frames has a member that awaits no other member, and
  `co_await` keeps this because the child's frame is new. Applied to the awaiting
  frames it gives one whose child is not itself awaiting, and then the child or
  the frame is queued or registered by `SuspendedOnce`. So when nothing is queued
  or registered no frame is left, and `run()` neither ends with roots left nor
  reports `EDEADLK`. It also needs that finished roots are
  reaped before anything else happens and that an error sets the stop flag.
- `WakeInv`: on a descriptor still in the epoll set, the kernel's mask, the
  slot's mask and the mask the handles call for agree, so `refresh_interest`
  cannot fail there; undispatched events are of distinct registered descriptors.
  A closed descriptor is outside the epoll set, which is where `stale_slot` lives.
- The refinement needs `TypeInv` and `TaskInv` only: there is one lemma per kind of
  step, and most steps of the loop stutter.

Those of UringLoop, each on `TypeInv` of `UringLoopProofs`:

- `TypeInv` adds that a registration is empty or complete, that `batch` is non-empty
  exactly while completions are processed, and that tokens not handed out yet lead
  nowhere. What `io_uring_submit` does to a whole queue is a fold over its entries;
  `SubmittedKeeps` reduces a property of the result to one of a single entry.
- `TokensLead`: `inflight_polls_` leads from a token to a side exactly if the side
  waits for that token. This is what makes a late completion harmless: its token
  leads nowhere, whoever waits on the side by then.
- `TaskInv` and the refinement are as for the epoll loop, with the sides' handles in
  the place of the slots'. `WaitsCounted` and `RootsCounted` are the counters;
  together with `TokensLead` they are `CountersExact`.
- `RingInv`: every entry, armed poll and completion that carries the token of an open
  wait belongs to that wait's side and descriptor, an armed poll waits for conditions
  that do not hold, a completion with `ok` comes after its condition held
  (`RingSound`); the token of every open wait is queued with a submission pending, in
  the kernel, in the batch, or was dropped with a batch (`WaitsSound`); the loop
  blocks only after it has submitted and scans with a time that has passed
  (`ControlSound`). Each part needs the others: that a poll reaches the kernel needs
  the pending flag, that its completion speaks for the wait needs the fresh token.

The other components:

- `WriterInv`: the queued buffers are consecutive and end with the last accepted
  byte, the front offset lies inside the front buffer, a pending write was asked
  for exactly the next bytes, and what it reported is counted once. Producers
  append while a write is pending, which leaves the front alone.
- `ResolverInv`: a request has a job exactly from its push on, in one of three
  places; the worker ends only after `stop_`, with the queue empty; and `stop_`
  comes when no more requests are made. `NoLostJob` is inductive by itself, because
  `cv_.wait` tests and blocks under the mutex that the push holds.
- `AnswersOwn` follows an answer from the worker through the shared state to the
  caller. It rests on `ConvertedUsable`: the loop over the list of `getaddrinfo`
  keeps only usable entries, by induction over its length.
- `OwnerInv`: every step closes what one place holds, moves it, or fills a place
  with a free number. The last keeps `SingleOwner` only if the place was empty, so
  the invariant adds that `owned_fd` is empty as long as the call that makes the
  socket is still ahead, and the proof that no function makes two.
- `AwaitInv`: the queue holds exactly the coroutines that are due, once each. A
  parent is due when its child has ended, so `await_resume` finds the result, and
  the links between parent and child agree in both directions, so a frame is not
  destroyed while its parent still awaits it.
- `ConnectInv`: a pending `SO_ERROR` belongs to a refusal, and a refusal is pending
  until the call that reads it reports it; a first write comes after the handshake
  and settles it. `AcceptInv` adds the accept queue to it.
- `TransferInv`: what was read and what is in the pipe are the numbers from 1 on, in
  order, up to the last byte sent; an operation under way has no result yet, and has
  moved nothing unless it is one on a whole buffer. What
  a send or a receive does to the two sequences is stated by lemmas of their own.
- `EchoInv`: while no call has failed, each payload is in the socket, with its session
  or echoed, and each echo in the socket or read, as counted from where `main()` is.
  So no session meets an end of file or a reset before its last round, and the
  shutdown causes no failure. The rest is about the flag: once it is set there is a
  message or a thread about to store it, and `main()` joins that thread first.
- `ChurnInv`: connections are numbered in the order in which they are made and served,
  so that the requests and the responses under way are intervals between the counts
  of the two threads.
- `SleepInv`: `HeldOnce` and types. A poll queues the members of a finite set in some
  order, each once; every other step takes the head of the queue and puts it back,
  into the free slot, or nowhere when the caller has its result.

Two conventions. Most leaves are first-order and go to Zenon, the default of each
module; a leaf on arithmetic, records or sequences names SMT. Where a loop or a fold
makes an induction necessary, the predicate is given as a set (`NatSetInduction`),
because the provers cannot instantiate the library's theorems on operators.

## 6. What stays with TLC

- Liveness under fairness, and the four disagreements as counterexamples.
- `ParsesExactly`: the value of a digit string is a fold and `Decimal` a recursive
  function. What they compute for every text takes an induction over data, for which
  the library's theorems need an operator as a parameter.

## 7. Hazards

`PROJECT.json` lists the places where a test would hardly reach an error, with
the property that would catch it, or the reason none does: lost or doubled
wakeups, rolled-back registrations, late completions, stale caches, stop racing
start, a wait racing its deadline, shared timers, retries after partial transfers,
enqueues between two steps of a shutdown, jobs and answers crossing a
cancellation, descriptors on error paths.

Known and outside the properties: two concurrent flushes of one writer (every use
has one); timeouts near the maximum of the clock; a loop that is run again after
an io_uring error, where completions of the interrupted batch are lost
(`PollInFlight` counts their tokens as `dropped`); two sleeps at once on a thread,
of which one may never end; the examples' waits after a failed accept or a failed
blocking connect, where nothing promises that they end.

## 8. Not modelled

- `engine`, `io_context`, `ip_tcp`: each call is forwarded to the chosen loop. What
  matters to their callers is that both loops give the same service (`Scheduler`).
- `error`, `result`, `endpoint` and `sockaddr` conversion, `local_port`, accessors:
  values without state. `send_to` and `recv_from` of UDP: one system call each.
- `echo_server`, `echo_client`, `backend_switch`, `perf_reactor_wait`: one thread
  that makes calls in sequence. The Boost.Asio programs are another library's.
- `co_await` in a coroutine that has no scheduler: `resume()` nests there, which no
  program of the repository uses.
- Constructor failures of the loops and reactors, allocation failure, option
  parsing and output.

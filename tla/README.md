# Verification of mudoReprint

mudoReprint is a small reactor library in the manner of muduo: one `EventLoop`
per thread, channels registered with epoll, timers behind a timerfd, and a TCP
server that deals its connections to a pool of loops. This directory holds TLA+
models of its parts, the TLC configurations that check them, and proofs that
TLAPS checks. Every definition is translated from the C++ source; `PROJECT.json`
maps each one to its lines, and each property to a mutant of the model that it
catches.

    tlc -workers 2 -config TcpServer.cfg MCTcpServer     # a run
    tlapm EpollerProofs.tla                              # the proofs of a module

## 1. Inventory

| Component | State | Operations | What makes it correct |
|---|---|---|---|
| `EventLoop` | `m_quit`, `m_doPendingFuncVec` under a mutex, `m_callingPendingFunctors`, the eventfd, `m_activeChannels` | `loop`, `quit`, `runInLoop`, `queueInLoop`, `wakeup`, `doPendingFunctor` | no wakeup, quit or functor is lost; functors run once and in order; a batch is closed |
| `EventLoopThread` | `m_loop`, the thread, the loop on its stack | `startLoop`, `threadFunc`, destructor | the pointer handed out is that of the new loop; the destructor returns; the loop is not used once it is gone |
| `EventLoopThreadPoll` | `m_loops`, `m_next`, `m_started` | `setThreadNum`, `start`, `getNextLoop` | loops are dealt in turn |
| `Epoller`, `Channel` | `m_index`, `m_events` of each channel, `m_channelMap`, the kernel's interest list | `updateChannel`, `removeChannel`, `poll`; `enableReading` and its like, `handleEvent` | the three records agree; no pointer to a channel that is gone |
| `TimerQueue`, `Timer` | `m_timerSet`, the timerfd, expirations and intervals | `addTimer`, `handleRead` with `getExpired` and `resetTimerList`, `runAt`, `runEvery`, `runAfter` | no timer early, late beyond need, skipped or run twice |
| `TcpConnection` | `m_state`, the channel, `m_outBuffer`, the references to the object | `send`, `shutDown` from any thread; `handleRead`, `handleWrite`, `handleClose`, `connectEstablished` on the loop | bytes in order and whole; FIN behind them; closed once; not used once destroyed |
| `TcpServer`, `Acceptor` | `m_connectionList`, the callbacks, the listening socket and its backlog | the setters, `start`, `handleRead` with `handleNewConn`, `removeConnection`, the destructor | the list has the open connections; callbacks in order; no client waits for ever |
| `Socket`, `SocketsOps` | a descriptor | move, destructor, `accept`; wrappers of system calls | a descriptor has one owner and goes back to the kernel; modelled in `TcpServer`, in part |
| `Connector` | `m_channel`, `m_loop` | `connect`, `handleWrite`, `retry` | not modelled, see section 8 |
| `InetAddress`, `stringformat.h`, `format.h` | none | conversions | not modelled |
| `main.cpp` | | a demonstration server, tests run by hand | an instance of `TcpServer` |

How they interact: all state of a loop belongs to its thread, which
`assertInLoopThread` enforces. Other threads reach it through one door,
`runInLoop`/`queueInLoop`, that is a vector under a mutex and an eventfd that ends
`epoll_wait`; timers, `send`, `shutDown` and `connectEstablished` all use it. A
channel is called by its loop through a raw pointer that the kernel keeps. A
connection is kept alive by `m_connectionList`, by its users, and by the functor of
`connectEstablished`; the functors of `send` and `shutDown` do not keep it alive.

What is hard: the push to the vector and the wakeup are two steps, and so are the
store to `m_quit` and its wakeup; the loop object dies on its own thread while the
destructor of `EventLoopThread` is still in `quit()`; file descriptors are used again;
handlers destroy channels during the dispatch of events; two clocks; partial writes;
`m_state` is checked and stored in two steps by any thread. `PROJECT.json` lists all
hazards with their lines and the properties that answer them.

## 2. Modules

| Module | Models | Proofs |
|---|---|---|
| `FunctorQueue` | abstract: what `queueInLoop` and `runInLoop` promise | |
| `EventLoop` | one loop, its thread and its callers; implements `FunctorQueue` | `EventLoopProofs` |
| `EventLoopThread` | composes `EventLoop` with the life of its thread and object | `EventLoopThreadProofs` |
| `EventLoopThreadPoll` | the pool | `EventLoopThreadPollProofs` |
| `Epoller` | registration of channels, reuse of fds, the batch of a turn | `EpollerProofs` |
| `TimerQueue` | timers, timerfd, clocks | `TimerQueueProofs` |
| `TcpConnection` | one connection with its loop, its users and its peer | `TcpConnectionProofs` |
| `TcpServer` | composes `EventLoopThreadPoll` with acceptor, loops, connections and descriptors | `TcpServerProofs` |

Each `MC...` module gives a module its values for TLC. A definition `X_Suffix` beside
`X` is `X` with a bug of the named kind. No model uses it; `PROJECT.json` pairs it with
the property that finds the bug.

Where two modules meet: `EventLoopThread` and `TcpServer` extend the module they are
built on, so that their steps are steps of the component. `TimerQueue`,
`TcpConnection` and `TcpServer` see a loop as a sequence of functors; that it is one is
what `EventLoop` is shown (`QueueSpec`), and that it moves is `QueuedFunctorRuns`.

### EventLoop
`loopPc` is the place in `loop()`: the test of `m_quit`, `epoll_wait`, the handlers
(`handle`), `doPendingFunctor` (`run`). `QueueInLoop` is the push under the mutex with the
test that decides on a wakeup; `Wakeup` is the write, a step of its own that the thread
owes (`waking`). User code on the loop thread, in callbacks and functors, makes the same
calls. `eventfd` is whether the counter is not zero. `m_quit` is accessed with
`memory_order_relaxed`; on one variable that is coherent, and the write and read of the
eventfd order it with the rest, so it is modelled as atomic. `early` is history: functors
the loop thread queued before `loop()`, for which nobody writes the eventfd.

### EventLoopThread
`ownerPc` is the owner in `startLoop()` or in the destructor, `threadPc` the thread in
`threadFunc()`. `startLoop()` waits under the mutex and then reads `m_loop` without it, as
two steps. A use of the loop after its thread destroyed it is kept in `stale`, a call
through a null `m_loop` ends in `crashed`. The user code that could quit the loop is
included; the properties say which guarantees need that nobody does.

### EventLoopThreadPoll
A loop is its place in `m_loops`, 0 is the base loop. `given` is history.

### Epoller
`m_fd[c]` is `None` while there is no object; `interest` is the kernel's list with the raw
pointer; `batch` and `current` are `m_activeChannels` and the handler that runs. Channels of
connections are destroyed after `handleClose`, that is after `disableAll()` without `remove()`;
other owners call `remove()` first. `removed` is history: channels whose last call was a
`remove()`, which leaves `m_events` as it is. `disableReading()` ends in one, so that a channel
that was enabled for writing too is then not watched at all; nothing in the repository calls
`disableReading()`. `RemoveChannel` wants a channel that is registered: no caller removes
another, so the assert in `Epoller.cpp:182` on such a call is not reached. An assert that fails
sets `failed` and ends the program (the asserts are compiled in: nothing defines `NDEBUG`).

### TimerQueue
`mono` is `CLOCK_MONOTONIC`, on which the timerfd (`deadline`) counts; the wall clock is
`mono + offset` and may be set. `HandleRead` is the read and `getExpired`, `RunTimer` one
callback, `ResetTimerList` the rest; other threads and the clocks move in between, and
callbacks add timers. `Poll` and `HandleRead` are apart as handlers of other channels come
between them. Time is in ticks of the clock; an interval is a double and finer, `Unit` steps
of it are a tick, and `TicksOf` cuts off the rest as `addTime` does, so that a timer may
repeat and never move. The timerfd counts from `mono` and the wall clock is `Boot` ahead at
the start. `Destroy` is `~TimerQueue` within `~EventLoop`; timers still in functors that
will not run are lost with them. `deleted` counts the `delete` of each Timer.

### TcpConnection
The bytes of a message are numbered. `functors` are those of this connection; `Alive` is that
somebody holds a `shared_ptr`. A step that ends the life runs the destructor with its assert.
`send` and `shutDown` are, on another thread, a check, (a store,) and the queueing, each a step.
`outcome` is what ended the program: an assert, the exception of `substr`, SIGPIPE, or the use
of an object that is gone. SIGPIPE is `WriteFails`: a write that fails with `EPIPE` raises it,
and nothing in the repository ignores it. Two things the language leaves open are choices: the
order in which the arguments of `write` in `handleWrite` are evaluated (line 171), and how much
a write takes. With either order no byte that was kept is sent right: readableBytes first, the
bytes go out and `retrieve(n)` fails its assert on the emptied buffer (that assert is in muduo's
`Buffer`, which is not part of the repository); readableBytes last, nothing is written and the
connection is shut down. So the branch that ends writing (lines 179 to 192) is never reached,
and is not in the model.

### TcpServer
Connections are numbered as accepted, and `given[c]` is the loop of connection c. `m_state` has
all states of the connection, and `m_events` what its channel is registered for.

* Setting up: `Construct` is the constructor of the server with its `Acceptor`
  (`ConstructAborts` if the base loop or the listening socket cannot be made), then
  `ServerSetThreadNum`, `setCallbacks`, `ServerStart` (`StartFails` if a thread or its loop cannot
  be made) or `Destroy`. The destructor deletes the base loop before
  `~Acceptor` calls into it, which ends the model as `"deleted loop"`. After `start` nobody can
  quit the base loop.
* `Accept` is `Acceptor::handleRead` and `handleNewConn` up to `runInLoop`. On the base loop
  `runInLoop` is a call: the functor goes to `functors[BaseLoop]`, and until it is run the base
  loop does nothing else. `CallConnCb` is the second call of `m_connCb` that ends
  `handleNewConn`. `AcceptFails` has the three branches of the switch: `EMFILE`, with which the
  client stays in the backlog; the errors that lose one client; those that are fatal.
* `connectEstablished`, `handleMessage`, `handleWrite` and `handleClose` (with `removeConnection`)
  happen on the thread of the connection's loop. `connectEstablished` is two steps: it registers the
  channel, and then `EstablishedCallback` calls `m_connCb`; a loop between the two is in
  `establishing`, and the base loop may make its second call there. `mapped` is the set of fds in
  each loop's `m_channelMap`, of which nothing is ever removed (see `Epoller`).
* Descriptors: a `Socket` is in a connection, or is the temporary of `handleRead` from which
  it was moved and whose `sockfd_` is then -1 (`MovedFrom`). `Held` says who keeps a
  connection; a step that takes the last reference away closes the fd (`CloseFds`), and
  `accept` may give it out again. A user may copy the `shared_ptr` in any callback (`kept`) and
  drop it later on any thread.
* The user talks: in callbacks, where `send` and `shutDown` are calls (`LoopSend`, `LoopShutDown`),
  and on other threads (`Send`, `ShutDownChecks` and `ShutDownStores`), where they are functors
  with a raw pointer (`calls`, `CallRuns`). All of it that touches `m_state`, `m_events` or the life
  of an object is here. The bytes are in `TcpConnection`; here a write takes what it likes.

`seen` is history, the callbacks of each connection: on which thread, and whether the user saw
`connected()`. `shut` and `revived` are the connections on which `shutDown` stored `kDisConnecting`,
and those where it did so over `kDisconnected`. `failed` is what ended the program: the failures of
setting up, the fatal errors of accept, an empty callback, each assert that is reached or that a
property says is not, the exception of `substr`, SIGPIPE, or a functor or an event that
meets a destroyed connection.

## 3. Runs

| Run | Bounds | Shows |
|---|---|---|
| `EventLoop_safety` | 2 callers, 3 functors, 1 channel | `TypeOK`, `NoLostWakeup`, `NoLostQuit`, `QueueSpec` (refinement), `BatchClosed`; with the 10 s timeout also `EarlyFunctorRuns` |
| `EventLoop_live` | 2 callers, 2 functors | `QueuedFunctorRuns`, `QuitKeepsCurrentTurn`, `QuitReturns` without any timeout |
| `EventLoopThread` | owner, 1 caller, 2 functors | `StartLoopReturnsLoop`, `RacesNeedUserQuit`, `DestructorReturns`, `HandedFunctorRuns` |
| `EventLoopThreadPoll` | up to 5 threads, 16 calls (three turns) | `RoundRobin` |
| `Epoller` | 2 connections and 1 other channel, 2 fds | the three records agree, only the stale fd fails |
| `Epoller_fd_reuse` | same | violated: see section 7 |
| `TimerQueue` | 2 timers, 3 times, an interval of half a tick and one of 2 ticks, the clock set once by 2 ticks either way, until time 5 | `NotLate`, `NeverEarly`, `Accounted`, `EveryTimerRuns` |
| `TcpConnection` | 2 users, 2 sends in all, messages of 2 bytes | order, FIN, one close, lifetime; `ShutdownSendsFin`, `PeerCloseRemoves` |
| `TcpConnection_partial_write` | same | violated: see section 7 |
| `TcpConnection_shutdown_race` | 1 user, 1 send | violated: see section 7 |
| `TcpServer` | 0 or 1 further loops, 3 clients, 2 descriptors, 1 user thread; connection 2 has messages, sends and shutdowns, 1 functor of a send waits | `ListMatches`, `UserView`, `FdsOwned`, `KnownEnds`; `FdReturned`, `ClientAccepted` |
| `TcpServer_io_loops` | same | violated: see section 7 |

Why the bounds are enough: the races are between a push, its wakeup and one turn of the loop, and
two functors of two threads with a third in the batch make all orders of these; fds are used again
as soon as there are more channels than fds, and three clients with two descriptors make both that
and `EMFILE`; a timer that is added while another is being run needs two timers; a clock set once
makes both orders of wall clock and timerfd; two bytes are the least that a write can split; one
loop with a thread is enough to have two threads, and the wrap of the pool's index is in the run of
`EventLoopThreadPoll`. `MaxTime` stops the clock of `TimerQueue` but not while a timer waits for its
first run, so liveness is not cut off. In `TcpServer` one connection talks, with one before it and
one behind it, so that its descriptor may be one used again and may be used again. It has at most
one message from its peer: one is enough for each order with the other callbacks. The inductive
invariant `SInv` was also checked once with 2 further loops (2.6 million states), too long for a run
here. `CHECK_DEADLOCK FALSE` is where the system ends (the thread is joined, the program was
aborted, the connection is gone, the clock stopped, all connections were accepted).

## 4. Fairness

* `EventLoop`: the loop thread takes its next step, a thread that pushed gets to its
  write, callbacks and functors return, and `epoll_wait` returns when the eventfd is
  readable (it is level-triggered). Nothing is assumed of user channels. `TimedSpec` adds
  the 10 s timeout of `epoll_wait`, the constant in `loop()`.
* `EventLoopThread`: the same, and that the owner goes on; it need not destroy the object.
* `TimerQueue`: time and the loop go on. Setting the clock and adding timers are free.
* `TcpConnection`: the loop dispatches what it polled, comes back to its functors
  and to `epoll_wait` (strong fairness: every turn of `loop()` does both), calls of users
  return; the socket is writable again and again. Peer and users need not do anything.
* `TcpServer`: functors run, callbacks return. The listening socket with a backlog and a closed
  connection stay readable (epoll is level-triggered), and a base loop that is busy with the one
  gets to the other between two events: strong fairness of `Accept`, and of `handleClose` while the
  channel is registered for reading. Clients need not close, users need not let go; `ClientAccepted`
  therefore says in its premise that descriptors become free again and again.

## 5. What is proved

For every value of the constants, by TLAPS:

* `EventLoopProofs`: `TypeCorrect`, `WakeupNotLost`, `QuitNotLost`, `BatchIsClosed`,
  `LoopImplementsQueue`. `NoLostWakeup` speaks of `epoll_wait` only and is not inductive. `IInv`
  says in which places of the turn a pending functor implies a wakeup that is due
  (`WakeupCovered`): everywhere but between the read of the eventfd and the swap, where the
  swap is what takes it. A functor that queues another owes its own wakeup (`OwnWakeup`), which rests
  on `m_callingPendingFunctors` being up exactly while the batch runs. Refinement maps the
  queue to `functors \o pending`; the history `submitted` gives that a functor joins once.
* `EventLoopThreadPollProofs`: `IndexInRange`, `DealsInTurn`. `IInv` reads the last turn of `given`
  backwards from `m_next` (`LastTurn`); both parts of `RoundRobin`, that a turn has each loop once
  and that the next turn repeats it, follow for any number of threads and calls.
* `EpollerProofs`: `MapAgrees`, `KernelAgrees`, `PolledExist`, `OnlyStaleFd`. `IInv` adds
  that a channel has events and no registration only after a `remove()` (`WatchedByIndex`), that open
  channels have fds of their own, that a map entry is of a channel that was
  constructed, under its own fd while it exists and of a connection once it does not
  (`MapEntries`), and that what the kernel or the batch points to is registered. The
  proof has one lemma per operation. `RegistrationTypeCorrect` is part of it.
* `EventLoopThreadProofs`: `ThreadTypeCorrect`, `StartLoopIsSafe`, `DestructorRaces`,
  `ThreadLoopWakes`, `ThreadLoopImplementsQueue`. Every step is one of `EventLoop`, leaves
  the loop alone, or is a call on the loop that is gone (`DeadCall`), so that the
  invariant and the refinement of `EventLoop` carry over. `TInv` adds that owner and thread
  are in step (`InStep`), that no user code runs before the pointer was handed out
  (`Untouched`), and that a quit has its author: without a user's, it is the destructor's
  own, which is past its read of `m_loop` by then (`QuitAuthor`, `LastCalls`).
* `TimerQueueProofs`: `TimersTypeCorrect`, `TimersAccounted`, `TimersNeverEarly`, `TimerfdArmed`.
  `NotLate` speaks of the time when `handleRead` does not run, and is not inductive. `Watched` says
  that the timerfd is in time for the first timer of the set, also while `handleRead` runs if that
  timer expires at 0, as `resetTimerList` then leaves the timerfd alone. A timer is in one place,
  the set, the expired vector or a functor (`Places`, `TimerStates`). A first timer exists as a set
  of natural numbers has a least one (`NatMin`, from the well-foundedness of `<`).
* `TcpConnectionProofs`: `ConnectionTypeCorrect`, `ClosedOnceUnlessRevived`,
  `StalePointersNeedHaste`, `FinComesLast`, `MessagesInOrder`. `IInv` relates `m_state` to the
  channel and `m_connectionList` (`StateAndChannel`), puts `connectEstablished` before all else
  (`ConnectingFirst`), and says who holds the object while a functor with its raw pointer
  waits (`Holders`). `Delivered` is how FIN comes last: a message of a user is
  about to be queued, in a functor, or on the wire, unless the FIN of another was before it; and
  no send is queued behind the `shutDown` of the same user (`Shutting`). The order of bytes
  needs a second invariant on top, `OrderInv`: the messages
  of a caller wait in the order of its calls (`QueuedInOrder`), and one that was sent waits, or is
  on the wire whole, or can never go out (`WaitsOrWent`).
* `TcpServerProofs`: `ServerDealsInTurn`, `ServerTypeCorrect`, `ListHoldsTheOpen`,
  `CallbacksInOrder`, `FdsHaveOneOwner`, `EndsAreKnown`. Every step is one of the pool or leaves it
  alone. `SInv` adds that functors wait on the loop the pool gave, oldest connection first
  (`PendingAtHome`), that the base loop cannot have closed the connection of which it has yet to
  make the second call (`AcceptingLatest`), that an fd in a map is that of a connection of the loop
  unless one of that loop gave its descriptor back (`MappedBy`), that a connection that is not
  listed is closed, or closed and revived by a `shutDown` (`StateAndList`), that a user past the
  check of `shutDown` holds the connection (`ShuttingHolds`), and what the user saw (`SeenByState`).
  Steps that may drop the last reference share a lemma (`Closing`), and so do the callbacks
  (`CallbackKeepsUserView`) and all that the user does to a connection (`TalkedKeepsSInv`).

They assume the named ASSUMEs of the modules: the loop thread is not one of the callers,
the owner of an `EventLoopThread` is, the wakeup channel is not a user's, `None` is not a
channel, fd or registration, and bounds are natural numbers.

So every safety property of the passing runs, invariant, action property or refinement, is
also a theorem. Only model-checked are the liveness properties: `EarlyFunctorRuns`,
`QueuedFunctorRuns`, `QuitKeepsCurrentTurn`, `QuitReturns`, `DestructorReturns`,
`HandedFunctorRuns`, `EveryTimerRuns`, `ShutdownSendsFin`, `PeerCloseRemoves`, `FdReturned` and
`ClientAccepted`. They rest on fairness, that is on ENABLED, for which TLAPS has no rule. The
four findings of section 7 are counterexamples, which TLC gives.

## 6. Properties in words

`RacesNeedUserQuit` says on what `~EventLoopThread` relies: nobody else may quit the loop; then its
unlocked read of `m_loop` finds the loop, and the one use of the destroyed loop is the write of the
destructor's own `quit()`, which does happen. `ClosedOnce` and `StaleNeedsHaste` do the same for
`TcpConnection`: the assert in its destructor and the one on `erase` fail only when `shutDown`
stored `kDisConnecting` over `kDisconnected` (the FIXME in line 120), and a stale pointer in a
functor needs a user that lets go before its calls ran (the FIXME in line 124). `SentInOrder` says
of each byte on the wire that it is there once, behind all that its caller sent before and next to
the rest of its message; messages of different callers come in any order. `NotLate` bounds the delay
of a timer by the time the wall clock was set forward; reading the wall clock (`TimerQueue.cpp:52`)
and arming the timerfd (line 73) are one step in the model, and what a thread loses between the two
adds to the delay. `Accounted` says that a late loop catches up on every run of a timer that
repeats, and that each Timer is deleted once or still has a place. `ListMatches` ties
`m_connectionList` to the registration for reading, and says that any channel with a registration
belongs to a connection that somebody holds, also one that a `send` registered after a late
`shutDown` revived it. `UserView` says in which order a user sees the callbacks on the connection's
loop, and accounts for each time `connected()` is false before the close: the user shut the
connection down, or the base loop made its second call of `m_connCb` before the other loop
established the connection. `KnownEnds` says what lies behind each end of a server: the assert of
`connectEstablished` never fails; those of the erase and of `~TcpConnection` only after a `shutDown`
stored over `kDisconnected`; the one on a new fd only for a descriptor that the same loop had
before; the one on the thread only with further loops; an event or a functor meets a destroyed
connection only after its close. The `substr` exception, the `retrieve` assert and SIGPIPE may
follow any `send`, and it says no more of them. `FdsOwned` follows a descriptor through the moves of
its `Socket` to the destructor; that the connection was closed before does not hold in the race of
`ClosedAtEnd`, but that ends the program. `FdReturned` says that the descriptor gets there; with
further loops, that holds as the first close ends the program. `ClientAccepted` says that `EMFILE`
costs no client its place: either it is served or the program ended (on one loop the freed
descriptor fails the assert of `Epoller_fd_reuse`, so that is what follows). The comment on each
property says the rest.

## 7. Where the code breaks what it says

* `Epoller_fd_reuse`: a closed connection leaves its entry in `m_channelMap`
  (`handleClose` never calls `remove()`); the next connection with that fd fails the assert
  in `Epoller.cpp:146`.
* `TcpConnection_partial_write`: `sendInLoop` keeps the wrong bytes of a message that
  was written in part (`TcpConnection.cpp:111`), against the comment in line 65.
* `TcpConnection_shutdown_race`: `shutDown` of another thread checks `m_state` before
  `handleClose` stores it and stores after it; the connection ends in `kDisConnecting`, and the
  assert in its destructor (`TcpConnection.cpp:27`) fails. The FIXME in line 120 names what is missing.
* `TcpServer_io_loops`: `removeConnection` runs on the thread of the connection's loop and
  fails its own assert (`TcpServer.cpp:86`) as soon as there are other loops.

Seen while modelling, without a run of their own: `send` while earlier bytes wait always throws (`n`
is 0 in line 111); a write to a peer that reset the connection raises SIGPIPE, which nothing
ignores; the FIXME in line 124; `handleEvent` reads the channel after a read callback that may have
destroyed it; `m_connCb` is called twice for each connection, the second time on the base loop's
thread; functors queued before `loop()` may wait 10 s; a callback that the user never set is called
all the same, and throws; out of descriptors the base loop spins, as nothing takes the client from
the backlog; a `TcpServer` that is destroyed uses its deleted loop; a `send` after such a late
`shutDown` registers a closed channel again; the sockets of `Connector` and of the `Acceptor` block
(`SocketsOps.cpp:87-88`), although `SocketsOps.h:23` says that they do not.

## 8. Not modelled

* `Connector`: the constructor drops the loop it is given and `m_loop` is never set, so
  `connecting()`, the one branch that goes on, is undefined. `retry` is empty and loses the
  descriptor, the others close it. Nothing the class does could be stated as a property that
  holds, and no other part uses it.
* `Socket` and `SocketsOps` outside `TcpServer`: the options, the address queries and the
  move assignment, which nothing calls.
* `InetAddress`, `stringformat.h`, `format.h`: conversions without state, on which no branch of
  the server depends.
* `main.cpp`: what it runs is `TcpServer` with three threads, which ends as
  `TcpServer_io_loops` says.

Also left out: logging, names and addresses, the growth of the vector of events in `poll`
(level-triggered events that did not fit come with the next call), the memory of timers
that is used again, and memory running out.

## 9. Plan

Done, in this order: `FunctorQueue`, `EventLoop` with proofs, `EventLoopThread`,
`EventLoopThreadPoll` with proofs, `Epoller` with proofs, `TimerQueue`, `TcpConnection`,
`TcpServer`; then the destructor and fine intervals of `TimerQueue`, and the errors of accept, the
callbacks, the descriptors and both ends of life of `TcpServer`, and what the user may do there with
`send` and `shutDown`.

Proved since: the safety properties of all modules (section 5).

Next:

1. `TcpConnection`: an abstract specification of a byte stream, which the model
   implements while no write is partial, with the proof of the refinement; `OrderInv` and
   `Delivered` are the lemmas it needs.
2. Likewise for the timers, what `runAt` and `runEvery` promise, from `Accounted` and
   `NotLate`.

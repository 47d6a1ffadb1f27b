# Formal models of hala-io

This directory holds TLA+ models of four components of the repository:
- the QUIC connection state of `hala-net`;
- the mio poller of `hala-io-driver`;
- the TCP adapters of `src/crates/net/tcp`, with the global driver registration;
- the `Shared` implementations of `src/shared`.

It also holds the TLC configurations that check the models, and TLAPS proofs about the QUIC
model, the poller and the TCP adapters.

## The system and its parts

- **QUIC connection state** (`src/hala-net/src/quic/conn_state.rs`).
  - `AsyncQuicConnState` wraps a `quiche::Connection`, the `opened_streams` set and the
    `incoming_streams` deque in a `LocalMediator`.
  - Every operation is an `on_poll` closure. It runs under the mediator's lock and either
    completes or parks its task under an event (`QuicConnEvents`).
  - The tasks are:
    - the connection's send loop (`send`) and recv loop (`recv`);
    - application tasks calling `stream_send`, `stream_recv`, `open_stream`, `accept` and
      `close`.
  - The tasks wake each other with `notify(event)`. `handle_stream` notifies the stream
    events of the streams quiche reports readable or writable, and `Accept` for a new
    stream. `handle_close` runs `wakeup_all`.
  - The send loop sleeps on a `Sleep` timer taken from quiche's `timeout()`.
- **mio poller** (`src/hala-io-driver/src/mio/poller.rs`).
  - `BasicMioPoller` registers sockets with mio and timers (`MioTimeout`) with a
    `MioTimeWheel`, which wraps the external `timewheel` crate.
  - `poll_once` collects mio's socket events. It then advances the wheel by the ticks that
    elapsed since the wheel was created and reports every timer whose slot it reaches.
  - The driver calls `poll_once` in its reactor loop. The QUIC send loop's `Sleep` is such
    a timer.

- **TCP adapters** (`src/crates/net/tcp/src/{listener,stream}.rs`) and the **driver
  registration** (`src/hala-io-util/src/current/driver.rs`).
  - `bind`, `connect_with` and `accept_with` open a handle through the driver and register
    it with the poller. If registration fails they close the handle again.
  - `Drop` deregisters the handle from the poller and then closes it.
  - The poller is the socket side of `BasicMioPoller`. In the multi-threaded flavour
    (`MTModel`) its `poll` and `time_wheel` are under a mutex, but `deregister` goes
    through an unguarded `Arc<mio::Registry>`.
- **Shared values** (`src/shared/src/lib.rs`).
  - `LocalShared` is an `Rc<RefCell>`; `MutexShared` an `Arc<Mutex>`.
  - Tasks call `lock`, `lock_mut` and `try_lock_mut` and drop the guards they get.
  - The guards are std's `Ref`, `RefMut` and `MutexGuard`, so their exclusion is std's
    guarantee. What lib.rs decides is what each method does with a failed std call: panic
    (`borrow`, `borrow_mut`, `unwrap`) or, in `try_lock_mut`, `None`.

The QUIC model and the poller model meet only through the `Sleep` timer. In the QUIC model the timer is
the environment action `SleepFire`, and the poller model checks when a timer fires. The
two models are therefore kept apart.

## Modules

| Module | Models |
|---|---|
| `QuicConnState` | conn_state.rs: one connection, its tasks and the mediator |
| `MCQuicConnState` | the constants of the QUIC runs and a bound on the incoming queue |
| `QuicConnState_proofs` | TLAPS proofs of three properties of `QuicConnState` |
| `MioPoller` | poller.rs: register, reregister, deregister and poll_once, and the timer wheel |
| `MCMioPoller` | the constants of the poller runs and two reference definitions |
| `MioPoller_proofs` | TLAPS proofs of five properties of `MioPoller` |
| `TcpAdapter` | listener.rs, stream.rs and driver.rs, over the socket side of `poll_once` |
| `MCTcpAdapter` | three handles, two drivers and symmetry for the TCP runs |
| `HandleLifecycle` | the handle lifecycle of spec section 3: free, open (registered, then deregistered), closed |
| `TcpAdapter_proofs` | TLAPS proofs of the close discipline of `TcpAdapter` and of its refinement of `HandleLifecycle` |
| `SharedValue` | `LocalShared` and `MutexShared` over std's borrow flag and mutex |
| `MCSharedValue` | three tasks for the shared-value run |

### QuicConnState

**State.**

| Variable | Models |
|---|---|
| `conn` | the quiche engine, as the facts the code reads: `is_closed`, closing or draining, `readable()`, `writable()`, `timeout()` and whether `send` has a packet |
| `opened`, `incoming` | `opened_streams` and `incoming_streams` |
| `seed` | `stream_id_seed` |
| `parked` | the events with a parked task |
| `sleep` | the send future's `sleep` local |
| `owned` | the streams the application holds |
| `accepted` | history: how often `accept` returned each stream |

Each event is one task, because the code keys a parked waker by event.

**quiche.** quiche is an external crate. Each of its calls is a set of possible result
states (`SendOkResults`, `RecvOkResults`, `RecvErrResults`, `OnTimeoutResults`). These
sets record the facts of quiche that the code depends on:

- a closing engine only sends the close frame;
- a draining engine drops packets;
- recv errors close the connection after applying earlier frames;
- an idle deadline closes the connection;
- a loss deadline queues a probe.

**Actions.** Each action is the whole `on_poll` closure of one operation, including the
`handle_stream` or `handle_close` it ends with:

- `Send`: lines 118-197. Its loop body is `SendIteration`. A zero timeout runs
  `on_timeout` and loops again.
- `Recv`: lines 200-251.
- `StreamSend`: lines 254-316. `close_stream` is `stream_send` with fin.
- `StreamRecv`: lines 319-374.
- `OpenStream`: lines 377-400. The seed is taken before the poll.
- `Accept`: lines 432-451.
- `Close`: lines 419-426.

The environment contributes two more actions:

- `Expire`: the engine's deadline passes.
- `SleepFire`: the reactor fires the send loop's Sleep.

**Fairness.** `FairSpec` has weak fairness on `Send`, `SleepFire` and `Expire`:

- the connection's send loop is always re-polled when woken;
- the reactor fires a due timer;
- time passes.

No fairness is assumed for application calls or for packet arrival, because the peer and
the application may stop.

### MioPoller

**Time and the wheel.**

- Time is counted in units, with `TickDuration` units to a tick. `now` is the time since
  `last_tick`. `Advance` moves it, up to `MaxTime`.
- `wheelTick` is `time_wheel.tick`.
- `wheel` holds the wheel's entries as `<<slot, token>>` with absolute slots.
- The timewheel crate is taken as `add(t, token)` filing at `tick + t`, and `tick()`
  advancing by one and returning that slot.

**Actions.**

- `RegisterSocket`, `DeregisterSocket`, `RegisterTimer`, `ReregisterTimer` and
  `DeregisterTimer` follow the `match` arms of `register` (200-264), `reregister` (266-323)
  and `deregister` (324-353).
- `PollOnce` (170-198) reports any registered sockets, with readiness chosen freely. It
  then runs `MioTimeWheel::tick` (104-124).

**Helpers.**

- `DurationToTicks` is `duration_to_ticks`, keeping the `as u32` cast as `% U32`.
- `IsExpired` is `MioTimeout::is_expired`.
- `Translate` is the readiness translation.

**Lifecycle.** Callers follow the lifecycle of the spec's data model: a handle is
registered once, then reregistered or deregistered while it is registered.

### TcpAdapter

**State.**

- `driver` is the `DRIVER` OnceLock. `used`, `open` and `closes` are the driver's handle
  table, after spec section 4.1: the table is not in this repository.
- `adapter` says which live adapter owns a handle. `registered` is the poller's set.
- `dropping` holds the handles whose `Drop` has deregistered but not yet closed.
- `polling`, `ready` and `events` split `poll_once` at its OS wait (line 175).

**Actions.**

- `RegisterDriver` is `register_driver`; `DriverRegistered` is `get_driver`.
- `Bind` is `bind`, which calls `bind_with` with `get_driver`'s driver; `BindWith` takes the
  driver from its caller, so it needs no registered driver. `ConnectWith` calls
  `get_driver` itself.
- `BindWith`, `ConnectWith` and `AcceptWith` share `RegisterOrClose` (`new_with`): success
  registers the handle, failure closes it.
- `DropDeregister` and `DropClose` are the two calls of `Drop`.
- `PollWait` chooses a subset of the registered handles; `PollReturn` returns it.

**Threading.** `MT` selects the flavour. With `MT = FALSE` the guard `Quiet` lets a call
start only when no `poll_once` and no `Drop` is half done: one thread runs everything.
With `MT = TRUE` a `Drop` on another thread may run between the two halves of
`poll_once`, and between its own two calls.

**Refinement.** `HandlePhase` reads the driver's table as a phase per handle (not yet used,
open, closed), and `Lifecycle` is the instance of `HandleLifecycle` with that phase and the
poller's `registered`. Construction is `Open` or `OpenFailed`; `Drop` is `Deregister` and
then `Close`; every other action is a stutter. `RefinesHandleLifecycle` is checked by
tcp_mt and proved.

### SharedValue

- `held` is the guard each task holds. `borrowFlag` is the RefCell's flag. `locked` and
  `poisoned` are the Mutex.
- `dead` holds the tasks that panicked. `tryResult` records what `try_lock_mut` returned.
- `flavour` is `LocalShared` or `MutexShared`, chosen in `Init` and never changed.
- A `borrow` that fails panics (`PanicIdle`). A mutex lock blocks while locked and panics
  on `unwrap` when poisoned.
- `Drop` releases a guard; `Panic` releases it while unwinding, which poisons a Mutex.
- `TryLockMut` is the `try_lock_mut` of the implementation in use.

## Runs

| Run | Config | Expect | Shows |
|---|---|---|---|
| quic_peer_streams | MCQuicConnState.cfg | pass | One peer stream, with an idle timer. `NoLostWakeup` and `NoParkOnClosed` hold, and so does the liveness property `WaitersWokenOnClose` under `FairSpec`. |
| quic_local_streams | MCQuicLocal.cfg | pass | One locally opened stream. `TypeOK` and `NoLostWakeup` hold. |
| quic_accept_local | MCQuicAcceptLocal.cfg | violation | `accept` returns a stream the application opened itself. |
| quic_accept_once | MCQuicAcceptOnce.cfg | violation | `accept` returns a peer stream a second time after a fin is sent on it. |
| quic_no_idle_timer | MCQuicNoIdleTimer.cfg | violation | Without an idle timer, a send task parked before a failed `recv` or a `close` is never woken. |
| mio_poller | MCMioPoller.cfg | pass | Events are reported only for registered handles. The wheel is never ahead of the clock, so the u128 subtraction never underflows. A timer fires at most once per arming and never later than its duration plus a tick. |
| mio_early_expiry | MCMioEarlyExpiry.cfg | violation | A timer registered while the wheel lags fires before `is_expired` holds. |
| mio_ticks_round_up | MCMioTicksRoundUp.cfg | violation | The `as u32` cast in `duration_to_ticks` adds a tick past 2^32 ticks. |
| mio_translate | MCMioTranslate.cfg | violation | An event that is neither readable nor writable is reported Writable. |
| tcp_mt | MCTcpMT.cfg | pass | Drops on any thread, which include every single-threaded schedule: every handle is closed exactly once, always after deregistration, and the adapters refine `HandleLifecycle`. |
| tcp_stale_event | MCTcpStaleEvent.cfg | violation | Multi-threaded: `poll_once` returns a token a concurrent `Drop` deregistered after the wait. |
| shared_try_lock_poisoned | MCSharedTryLock.cfg | violation | After a task panics holding a `MutexShared` guard, `try_lock_mut` returns None while nobody holds a guard, though the comment at lib.rs line 113 says None means "currently borrowed". `LocalShared` keeps the comment. |

The findings are listed in `PROJECT.json`. Each property of a passing run has a mutant:
a plausible bug in the code it is about, under which TLC finds the property violated.

### Bounds, and why they are enough

**QUIC.**

- One stream of each kind is the smallest instance in which a stream's task can park,
  be notified, be accepted, receive a fin and be collected. The two runs cover the peer
  side and the local side.
- `MaxOpen` bounds `open_stream` calls.
- The `IncomingBound` constraint keeps the incoming queue at most 2 long. Two entries are
  enough to show a double accept.
- The interesting cases all happen within these bounds. All of the following are reached:
  - every result of quiche;
  - closing, draining and closed;
  - an armed, fired and dropped Sleep;
  - every kind of park;
  - every kind of wakeup.

**Poller.**

- One socket and one timer.
- `TickDuration` = 2, so a duration can fall between ticks.
- Durations 1, 3 and 4: below a tick, between ticks, and on a tick.
- `MaxTime` = 12. The clock runs past six ticks, so a timer can be registered while the
  wheel lags, fire, and be re-armed.
- `U32` is 1000 in the passing run and 2 in the run that exposes the truncation.

**TCP.**

- Three handles and two drivers, as model values under symmetry.
- Three handles let a listener accept a stream while another handle fails to register,
  and let a stream be dropped while a poll is in flight.
- Two drivers show the second `register_driver` changing nothing.

**Shared.**

- Three tasks: two can hold Refs together while a third is refused, or a holder can panic
  while others wait.
- The run starts from both flavours; `flavour` is fixed at creation (`Init`). The shortest
  counterexample is three steps: lock, panic, try_lock_mut. Restricted to `LocalShared`
  the property holds (228 states).

**Fairness.** The TCP and shared runs check safety only and assume no fairness. Every
task may end up panicked, so the shared run does not check deadlock.

## What is proved

`QuicConnState_proofs` proves three theorems for every value of the constants, under
`ConstAssumption`:

- `TypeCorrect`: `Spec => []TypeOK`.
  - `TypeOK` alone is not inductive, because `OpenStream` adds `seed` to `owned`.
  - The inductive invariant `IInv` adds `SeedOK`: the seed is always `StreamIdSeed + 4k`
    for some k ≤ MaxOpen.
  - The proof needs one lemma per result set of quiche and one per action. For example,
    `RecvOkForm` gives the form of a recv result.
- `NoParkOnClosedThm`: `Spec => NoParkOnClosed`.
  - Every action either only removes from `parked` or leaves the engine open. One lemma
    per action.
- `NoLostWakeupThm`: `Spec => []NoLostWakeup`.
  - The inductive invariant `WInv` is `IInv`, plus `EngineConsistent`, plus the property
    itself.
  - `EngineConsistent` says writable streams are alive and collected streams are not.
    Without it a stream-send waiter could be parked on a stream that quiche later reports
    writable without a notify.
  - The argument: every step that makes a parked poll ready notifies that poll's event in
    the same closure. This is `handle_stream` after send and recv, and the notifies of
    stream_send, stream_recv and open_stream. Every step that parks the send loop while
    the engine has a deadline arms a Sleep.

`MioPoller_proofs` proves `PollerTypeCorrect`, `WheelNeverAhead`, `FireOnceThm` and
`EventsOnlyForRegisteredThm`.
- The inductive invariant `WheelInv` adds two facts to `TypeOK`. `SlotsMatch`: every wheel
  entry is at its timer's current slot, for a registered timer. `FiredGone`: a timer that
  fired has no entry left.
- `WheelNotAhead` rests on `duration_to_ticks` rounding down being monotone in time.
- `ExpiryNotLateThm` (`Spec => ExpiryNotLate`) uses the inductive invariant `LateInv`.
  It adds two facts to `WheelInv` and `WheelNotAhead`. `Pending`: every wheel entry lies
  in the future of the wheel's tick. `Deadline`: every entry's tick is at most the tick
  of its timer's start plus `TimerTicks` of its duration.
  - A timer due when `poll_once` runs has its entry at a tick the wheel reaches in that
    call, so it fires there. The arithmetic is two lemmas on integer division,
    `DivMono` and `DivAdd`, and `TimerTicksBounds`.

`TcpAdapter_proofs` proves `TcpTypeCorrect`, `ClosedExactlyOnceThm` and
`TcpRefinesLifecycle`, in both flavours, under
`AdapterAssumption`, and `SingleThreadEventsOnlyForLive` for `MT = FALSE`.
- The inductive invariant adds `Untouched` (unused handles have no history) and
  `RegisteredOwned` (a registered handle has a live adapter).
- `TcpRefinesLifecycle` maps each step to one of `HandleLifecycle` with the same
  invariant: a handle a live adapter owns is open, and one being closed is no longer
  registered. One lemma per kind of step.
- `SingleThreadEventsOnlyForLive` strengthens the invariant with `ReadyIdle` (no ready
  set outside a poll) and `ReadyLive` (single-threaded, the ready set holds only
  registered open handles, and no `Drop` is half done during a poll).

Left to TLC:

- **Liveness.** `WaitersWokenOnClose` needs fairness and ENABLED, which TLAPS does not
  handle.
- `EventsOnlyForLive` in the multi-threaded flavour, where it does not hold (run
  tcp_stale_event).
- The pure conversions checked against reference definitions (`duration_to_ticks` past
  2^32 ticks, the event translation): they are violation runs, not theorems.

## Not modelled

- `config.rs`: the idle timeout is the constant `IdleTimeout`.
- `connector.rs`: the client handshake wrapper.
- The old QUIC API and its tests.
- The driver's `net.rs` and `fs.rs` wrappers, which forward calls to the driver. Unlike
  the adapters of `src/crates/net/tcp`, net.rs's `TcpListener::bind`, `TcpStream::new` and
  `UdpSocket::bind` return a bind or registration error with `?` without closing the handle
  `fd_open` gave, and the types have no `Drop`: the handle leaks (listed as a hazard).
- The TCP adapters' `read`, `write`, `shutdown` and address getters, which only forward to
  the driver. The driver's own waker table is not in this repository.
- The thread-local `LOCAL_DRIVER`, declared but never read.
- The `locks` crate's `Locker` impl for std `Mutex` (`mutex.rs`), which the shared crate
  does not use.
- The lock benchmark in `benches/mutex_lock.rs`. Its helper loop has no exit.
- `SpinMutex` and `WaitableLockerMaker`, declared outside `src/`.
- The crate roots and the test harness.

Also abstracted:

- Socket interests, because mio's readiness reports are chosen freely.
- The 2048-slot wrap of the timewheel crate.

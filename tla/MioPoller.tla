------------------------------ MODULE MioPoller ------------------------------
(***************************************************************************)
(* The mio poller and its timer wheel: BasicMioPoller and MioTimeWheel in  *)
(* src/hala-io-driver/src/mio/poller.rs.                                   *)
(*                                                                         *)
(* Handles are sockets (TcpListener, TcpStream, UdpSocket: one kind, their *)
(* code is the same) and timers (MioTimeout).  Sockets go to mio's         *)
(* registry; timers to the timer wheel, which poll_once advances by the    *)
(* wall-clock time elapsed since the wheel was created.                    *)
(*                                                                         *)
(* Time is counted in units of a fraction of a tick: TickDuration units    *)
(* make one tick, and `now` is Instant::now() since the wheel's last_tick. *)
(*                                                                         *)
(* The wheel is the external timewheel crate.  As the code uses it,        *)
(* add(ticks, token) files the token `ticks` ticks after the wheel's own   *)
(* tick count and returns that slot, remove(slot, token) takes it out, and *)
(* tick() advances the count by one and returns the tokens of the slot it  *)
(* reaches.                                                                *)
(*                                                                         *)
(* Callers keep the lifecycle of the spec's data model: a handle is        *)
(* registered once, then reregistered or deregistered while registered.    *)
(***************************************************************************)
EXTENDS Integers, FiniteSets

CONSTANTS
  Sockets,       \* socket handles (their tokens)
  Timers,        \* timer handles (their tokens)
  TickDuration,  \* BasicMioPoller::tick_duration, in time units
  Durations,     \* the durations a timer may be opened with, in time units
  U32,           \* 2^32: the range of `as u32`
  MaxTime        \* bound on the clock

ASSUME PollerAssumption ==
  /\ Sockets \cap Timers = {}
  /\ TickDuration \in Nat \ {0}
  /\ Durations \subseteq Nat \ {0}
  /\ U32 \in Nat \ {0}
  /\ MaxTime \in Nat

Handles == Sockets \cup Timers

(* Option::None of a start time or slot (both are never negative).       *)
None == -1

(* The driver's Interest bitset, and mio's readiness report of one event.  *)
Readable == "Readable"
Writable == "Writable"

-----------------------------------------------------------------------------
(* duration_to_ticks (lines 16-27), on durations counted in time units.    *)
DurationToTicks(duration, tickDuration, roundUp) ==
  LET ticks == duration \div tickDuration
  IN  IF roundUp /\ tickDuration * (ticks % U32) < duration THEN ticks + 1 ELSE ticks

(* The ticks a timer is filed ahead: its duration rounded up (register,   *)
(* line 232; reregister, line 302).                                        *)
TimerTicks(d) == DurationToTicks(d, TickDuration, TRUE)

(* The ticks elapsed at time t, rounded down (MioTimeWheel::tick, 105-107). *)
ElapsedTicks(t) == DurationToTicks(t, TickDuration, FALSE)

(* MioTimeout::is_expired (lines 65-81) at time t.                         *)
IsExpired(timeout, t) ==
  /\ timeout.start # None
  /\ \/ t - timeout.start >= timeout.duration
     \/ timeout.duration - (t - timeout.start) < TickDuration

(* poll_once's translation of one mio event (lines 180-186).               *)
Translate(isReadable, isWritable) ==
  IF ~isReadable THEN {Readable, Writable} \ {Readable}
  ELSE IF ~isWritable THEN {Readable, Writable} \ {Writable}
  ELSE {Readable, Writable}

VARIABLES
  now,         \* wall-clock time since MioTimeWheel::last_tick
  wheelTick,   \* time_wheel.tick
  wheel,       \* the wheel's entries: <<slot, token>>
  timeout,     \* the MioTimeout of each timer handle
  registered,  \* handles registered (mio registry, or armed timers)
  mioEvents,   \* mio's events of the last poll: <<token, readable, writable>>
  events,      \* the result of the last poll_once
  fired        \* history: expiry events of each timer since it was armed

vars == <<now, wheelTick, wheel, timeout, registered, mioEvents, events, fired>>

TimeoutStates ==
  [duration : Durations, start : Nat \cup {None}, slot : Nat \cup {None}]

-----------------------------------------------------------------------------
(* The clock advances.                                                     *)
Advance ==
  /\ now < MaxTime
  /\ now' = now + 1
  /\ UNCHANGED <<wheelTick, wheel, timeout, registered, mioEvents, events, fired>>

(* time_wheel.add(ticks, token), returning the slot.                       *)
WheelAddLate(ticks, token) == <<wheelTick + ticks + 1, token>>

WheelAdd(ticks, token) == <<wheelTick + ticks, token>>

(* register (lines 200-264).  A socket is registered with mio; a timer is  *)
(* given its duration (fd_open), then filed ticks (rounded up) ahead.      *)
RegisterSocket(h) ==
  /\ h \in Sockets \ registered
  /\ registered' = registered \cup {h}
  /\ UNCHANGED <<now, wheelTick, wheel, timeout, mioEvents, events, fired>>

RegisterTimer(h, d) ==
  /\ h \in Timers \ registered
  /\ LET ticks == TimerTicks(d)
         entry == WheelAdd(ticks, h)
     IN  /\ timeout' = [timeout EXCEPT ![h] = [duration |-> d, start |-> now,
                                               slot |-> entry[1]]]
         /\ wheel' = wheel \cup {entry}
  /\ registered' = registered \cup {h}
  /\ fired' = [fired EXCEPT ![h] = 0]
  /\ UNCHANGED <<now, wheelTick, mioEvents, events>>

(* reregister (lines 266-323): for a timer, the old slot is removed, the   *)
(* timer filed again and its start time reset.                             *)
ReregisterTimerKeepSlot(h) ==
  /\ h \in Timers \cap registered
  /\ LET t == timeout[h]
         entry == WheelAdd(TimerTicks(t.duration), h)
     IN  /\ wheel' = wheel \cup {entry}
         /\ timeout' = [timeout EXCEPT ![h] = [t EXCEPT !.start = now, !.slot = entry[1]]]
  /\ fired' = [fired EXCEPT ![h] = 0]
  /\ UNCHANGED <<now, wheelTick, registered, mioEvents, events>>

ReregisterTimer(h) ==
  /\ h \in Timers \cap registered
  /\ LET t == timeout[h]
         ticks == TimerTicks(t.duration)
         entry == WheelAdd(ticks, h)
     IN  /\ wheel' = (IF t.slot # None THEN wheel \ {<<t.slot, h>>} ELSE wheel) \cup {entry}
         /\ timeout' = [timeout EXCEPT ![h] = [t EXCEPT !.start = now, !.slot = entry[1]]]
  /\ fired' = [fired EXCEPT ![h] = 0]
  /\ UNCHANGED <<now, wheelTick, registered, mioEvents, events>>

(* deregister (lines 324-353): a timer's slot is removed from the wheel;   *)
(* the MioTimeout keeps its start time and slot.                           *)
DeregisterTimerKeepSlot(h) ==
  /\ h \in Timers \cap registered
  /\ registered' = registered \ {h}
  /\ UNCHANGED <<now, wheelTick, wheel, timeout, mioEvents, events, fired>>

DeregisterTimer(h) ==
  /\ h \in Timers \cap registered
  /\ wheel' = IF timeout[h].slot # None THEN wheel \ {<<timeout[h].slot, h>>} ELSE wheel
  /\ registered' = registered \ {h}
  /\ UNCHANGED <<now, wheelTick, timeout, mioEvents, events, fired>>

DeregisterSocket(h) ==
  /\ h \in Sockets \cap registered
  /\ registered' = registered \ {h}
  /\ UNCHANGED <<now, wheelTick, wheel, timeout, mioEvents, events, fired>>

(* The number of tick() calls MioTimeWheel::tick makes to catch up with    *)
(* the elapsed tick count `target` (line 109).                             *)
TickCountSwapped(target) == wheelTick - target

TickCountPlusOne(target) == target - wheelTick + 1

TickCount(target) == target - wheelTick

(***************************************************************************)
(* poll_once (lines 170-198) with MioTimeWheel::tick (lines 104-124).  mio *)
(* reports any registered sockets, each readable, writable, both or        *)
(* neither (an error or hang-up event); the wheel then advances to the     *)
(* tick count of the elapsed time, one tick() at a time, and every token   *)
(* of a slot it reaches is reported Readable.                              *)
(***************************************************************************)
PollOnce ==
  /\ \E ready \in SUBSET (registered \cap Sockets),
        report \in [Sockets -> BOOLEAN \X BOOLEAN] :
       LET target == ElapsedTicks(now)
           due == {e \in wheel : wheelTick < e[1] /\ e[1] <= target}
           expired == {e[2] : e \in due}
       IN  /\ wheelTick' = wheelTick + TickCount(target)
           /\ wheel' = wheel \ due
           /\ mioEvents' = {<<s, report[s][1], report[s][2]>> : s \in ready}
           /\ events' = {<<s, Translate(report[s][1], report[s][2])>> : s \in ready}
                          \cup {<<t, {Readable}>> : t \in expired}
           /\ fired' = [t \in Timers |-> IF t \in expired /\ fired[t] < 2
                                           THEN fired[t] + 1 ELSE fired[t]]
  /\ UNCHANGED <<now, timeout, registered>>

-----------------------------------------------------------------------------
Init ==
  /\ now = 0
  /\ wheelTick = 0
  /\ wheel = {}
  /\ timeout \in [Timers -> {[duration |-> d, start |-> None, slot |-> None] : d \in Durations}]
  /\ registered = {}
  /\ mioEvents = {}
  /\ events = {}
  /\ fired = [t \in Timers |-> 0]

Next ==
  \/ Advance
  \/ \E h \in Sockets : RegisterSocket(h) \/ DeregisterSocket(h)
  \/ \E h \in Timers, d \in Durations : RegisterTimer(h, d)
  \/ \E h \in Timers : ReregisterTimer(h) \/ DeregisterTimer(h)
  \/ PollOnce

Spec == Init /\ [][Next]_vars

-----------------------------------------------------------------------------
TypeOK ==
  /\ now \in 0 .. MaxTime
  /\ wheelTick \in Nat
  /\ wheel \subseteq Nat \X Timers
  /\ timeout \in [Timers -> TimeoutStates]
  /\ registered \subseteq Handles
  /\ mioEvents \subseteq Sockets \X BOOLEAN \X BOOLEAN
  /\ events \subseteq Handles \X SUBSET {Readable, Writable}
  /\ fired \in [Timers -> 0 .. 2]

-----------------------------------------------------------------------------
(***************************************************************************)
(* poll_once reports only registered handles (spec section 8, invariant   *)
(* 1): every token a poll returns, socket event or timer expiry, belongs   *)
(* to a handle registered at the time of the poll.  For timers this rests  *)
(* on reregister and deregister removing the old wheel slot.               *)
(***************************************************************************)
EventsOnlyForRegistered ==
  [][PollOnce => \A e \in events' : e[1] \in registered]_vars

(***************************************************************************)
(* The wheel never runs ahead of the clock: the tick count poll_once       *)
(* computes from the elapsed time is never below time_wheel.tick, so the   *)
(* u128 subtraction `ticks - self.time_wheel.tick` (line 109) never        *)
(* underflows.                                                             *)
(***************************************************************************)
WheelNotAhead == wheelTick <= now \div TickDuration

(***************************************************************************)
(* A timer expires at most once per arming: register or reregister files  *)
(* one wheel entry and the previous one is gone.                           *)
(***************************************************************************)
FireOnce == \A t \in Timers : fired[t] <= 1

(***************************************************************************)
(* A timer is never reported late by more than a tick (the upper bound of  *)
(* spec section 8, invariant 2): a poll_once at least duration plus one    *)
(* tick after the timer was armed reports every timer still in the wheel.  *)
(***************************************************************************)
ExpiryNotLate ==
  [][PollOnce =>
       \A t \in Timers :
         (\E e \in wheel : e[2] = t) /\ now - timeout[t].start >= timeout[t].duration + TickDuration
           => <<t, {Readable}>> \in events']_vars

(***************************************************************************)
(* A timer is never reported before it is expired by MioTimeout's own      *)
(* test is_expired (lines 65-81), which already allows it to come up to a  *)
(* tick early.                                                             *)
(***************************************************************************)
ExpiryNotEarly ==
  [][PollOnce =>
       \A e \in events' : e[1] \in Timers => IsExpired(timeout[e[1]], now)]_vars

(***************************************************************************)
(* poll_once reports the readiness mio reported (spec section 4.2, step 3: *)
(* "preserving which of {Readable, Writable} the OS reported ready"): each *)
(* event of the last poll carries exactly the interests mio's event had.   *)
(***************************************************************************)
TranslatePreservesReadiness ==
  \A e \in mioEvents :
    <<e[1], {x \in {Readable, Writable} : (x = Readable /\ e[2]) \/ (x = Writable /\ e[3])}>>
      \in events

=============================================================================

--------------------------- MODULE MioPoller_proofs ---------------------------
(***************************************************************************)
(* Proofs about the mio poller model: type correctness, the wheel never    *)
(* running ahead of the clock, one expiry per arming and events only for   *)
(* registered handles, for every tick duration, set of durations and u32   *)
(* range.                                                                  *)
(***************************************************************************)
EXTENDS MioPoller, TLAPS

-----------------------------------------------------------------------------
(* Integer division by a positive tick duration.                           *)
LEMMA DivNat ==
  ASSUME NEW a \in Nat, NEW b \in Nat \ {0}
  PROVE  a \div b \in Nat
  OBVIOUS

LEMMA DivMonotone ==
  ASSUME NEW a \in Nat, NEW b \in Nat \ {0}
  PROVE  a \div b <= (a + 1) \div b
  OBVIOUS

(* duration_to_ticks never returns a negative count.                       *)
LEMMA DurationToTicksNat ==
  ASSUME NEW d \in Nat, NEW r \in BOOLEAN
  PROVE  DurationToTicks(d, TickDuration, r) \in Nat
  BY PollerAssumption, DivNat DEF DurationToTicks

LEMMA TimerTicksNat ==
  ASSUME NEW d \in Nat
  PROVE  TimerTicks(d) \in Nat
  BY PollerAssumption, DivNat DEF TimerTicks, DurationToTicks

LEMMA ElapsedTicksNat ==
  ASSUME NEW d \in Nat
  PROVE  ElapsedTicks(d) \in Nat
  BY PollerAssumption, DivNat DEF ElapsedTicks, DurationToTicks

-----------------------------------------------------------------------------
(* Type correctness.                                                        *)
LEMMA InitType == Init => TypeOK
  BY PollerAssumption DEF Init, TypeOK, TimeoutStates, None

LEMMA WheelAddType ==
  ASSUME TypeOK, NEW h \in Timers, NEW d \in Nat
  PROVE  WheelAdd(TimerTicks(d), h) \in Nat \X Timers
<1>1. TimerTicks(d) \in Nat
  BY TimerTicksNat
<1>2. wheelTick + TimerTicks(d) \in Nat
  BY <1>1 DEF TypeOK
<1>. QED
  BY <1>2 DEF WheelAdd

LEMMA RegisterTimerType ==
  ASSUME TypeOK, NEW h \in Timers, NEW d \in Durations, RegisterTimer(h, d)
  PROVE  TypeOK'
<1>1. WheelAdd(TimerTicks(d), h) \in Nat \X Timers
  BY WheelAddType, PollerAssumption
<1>. QED
  BY <1>1, PollerAssumption DEF RegisterTimer, TypeOK, TimeoutStates, Handles

(* A timer re-armed at a time and slot keeps its type.                      *)
LEMMA RearmType ==
  ASSUME NEW r \in TimeoutStates, NEW a \in Nat, NEW b \in Nat
  PROVE  [r EXCEPT !.start = a, !.slot = b] \in TimeoutStates
  BY DEF TimeoutStates

LEMMA ReregisterTimerType ==
  ASSUME TypeOK, NEW h \in Timers, ReregisterTimer(h)
  PROVE  TypeOK'
<1> DEFINE t == timeout[h]
           entry == WheelAdd(TimerTicks(t.duration), h)
<1>1. t \in TimeoutStates
  BY DEF TypeOK
<1>2. entry \in Nat \X Timers
  BY <1>1, WheelAddType, PollerAssumption DEF TimeoutStates
<1>3. [t EXCEPT !.start = now, !.slot = entry[1]] \in TimeoutStates
  <2>1. now \in Nat /\ entry[1] \in Nat
    BY <1>2 DEF TypeOK
  <2>. QED
    BY <1>1, <2>1, RearmType
<1>4. timeout' = [timeout EXCEPT ![h] = [t EXCEPT !.start = now, !.slot = entry[1]]]
  BY DEF ReregisterTimer
<1>5. timeout' \in [Timers -> TimeoutStates]
  BY <1>3, <1>4 DEF TypeOK
<1>6. wheel' \subseteq Nat \X Timers
  <2>1. wheel' = (IF t.slot # None THEN wheel \ {<<t.slot, h>>} ELSE wheel) \cup {entry}
    BY DEF ReregisterTimer
  <2>. QED
    BY <1>2, <2>1 DEF TypeOK
<1>7. fired' \in [Timers -> 0 .. 2]
  BY DEF ReregisterTimer, TypeOK
<1>. QED
  BY <1>5, <1>6, <1>7 DEF ReregisterTimer, TypeOK

(* The entries poll_once's catch-up reaches, and their tokens.            *)
Due == {e \in wheel : wheelTick < e[1] /\ e[1] <= ElapsedTicks(now)}

Expired == {e[2] : e \in Due}

LEMMA PollOnceForm ==
  ASSUME TypeOK, PollOnce
  PROVE  /\ wheelTick' = ElapsedTicks(now)
         /\ wheel' = wheel \ Due
         /\ fired' = [t \in Timers |-> IF t \in Expired /\ fired[t] < 2
                                          THEN fired[t] + 1 ELSE fired[t]]
         /\ \E ready \in SUBSET (registered \cap Sockets),
               report \in [Sockets -> BOOLEAN \X BOOLEAN] :
              /\ mioEvents' = {<<s, report[s][1], report[s][2]>> : s \in ready}
              /\ events' = {<<s, Translate(report[s][1], report[s][2])>> : s \in ready}
                             \cup {<<t, {Readable}>> : t \in Expired}
         /\ UNCHANGED <<now, timeout, registered>>
<1>1. PICK ready \in SUBSET (registered \cap Sockets),
           report \in [Sockets -> BOOLEAN \X BOOLEAN] :
        /\ wheelTick' = wheelTick + TickCount(ElapsedTicks(now))
        /\ wheel' = wheel \ Due
        /\ mioEvents' = {<<s, report[s][1], report[s][2]>> : s \in ready}
        /\ events' = {<<s, Translate(report[s][1], report[s][2])>> : s \in ready}
                       \cup {<<t, {Readable}>> : t \in Expired}
        /\ fired' = [t \in Timers |-> IF t \in Expired /\ fired[t] < 2
                                         THEN fired[t] + 1 ELSE fired[t]]
  BY Zenon DEF PollOnce, Due, Expired
<1>2. wheelTick' = ElapsedTicks(now)
  BY <1>1, ElapsedTicksNat DEF TypeOK, TickCount
<1>3. UNCHANGED <<now, timeout, registered>>
  BY DEF PollOnce
<1>. QED
  BY <1>1, <1>2, <1>3, Zenon

LEMMA ExpiredTimers ==
  ASSUME TypeOK
  PROVE  Expired \subseteq Timers /\ Due \subseteq wheel
  BY DEF TypeOK, Expired, Due

LEMMA PollOnceType ==
  ASSUME TypeOK, PollOnce
  PROVE  TypeOK'
<1>1. ElapsedTicks(now) \in Nat
  BY ElapsedTicksNat DEF TypeOK
<1>2. wheelTick' \in Nat /\ wheel' \subseteq Nat \X Timers
  BY <1>1, PollOnceForm DEF TypeOK
<1>3. PICK ready \in SUBSET (registered \cap Sockets),
           report \in [Sockets -> BOOLEAN \X BOOLEAN] :
        /\ mioEvents' = {<<s, report[s][1], report[s][2]>> : s \in ready}
        /\ events' = {<<s, Translate(report[s][1], report[s][2])>> : s \in ready}
                       \cup {<<t, {Readable}>> : t \in Expired}
  BY PollOnceForm
<1>4. \A r, w \in BOOLEAN : Translate(r, w) \in SUBSET {Readable, Writable}
  BY DEF Translate
<1>5. events' \subseteq Handles \X SUBSET {Readable, Writable}
  BY <1>3, <1>4, ExpiredTimers DEF TypeOK, Handles
<1>6. fired' \in [Timers -> 0 .. 2]
  <2>1. fired \in [Timers -> 0 .. 2]
    BY DEF TypeOK
  <2>. QED
    BY <2>1, PollOnceForm
<1>7. mioEvents' \subseteq Sockets \X BOOLEAN \X BOOLEAN
  BY <1>3
<1>8. UNCHANGED <<now, timeout, registered>>
  BY PollOnceForm
<1>. QED
  BY <1>2, <1>5, <1>6, <1>7, <1>8 DEF TypeOK

LEMMA NextType == TypeOK /\ [Next]_vars => TypeOK'
<1> SUFFICES ASSUME TypeOK, [Next]_vars PROVE TypeOK'
  OBVIOUS
<1>1. CASE Advance
  BY <1>1, PollerAssumption DEF Advance, TypeOK
<1>2. ASSUME NEW h \in Sockets, RegisterSocket(h) \/ DeregisterSocket(h)
      PROVE  TypeOK'
  BY <1>2 DEF RegisterSocket, DeregisterSocket, TypeOK, Handles
<1>3. ASSUME NEW h \in Timers, NEW d \in Durations, RegisterTimer(h, d)
      PROVE  TypeOK'
  BY <1>3, RegisterTimerType
<1>4. ASSUME NEW h \in Timers, ReregisterTimer(h) PROVE TypeOK'
  BY <1>4, ReregisterTimerType
<1>5. ASSUME NEW h \in Timers, DeregisterTimer(h) PROVE TypeOK'
  BY <1>5 DEF DeregisterTimer, TypeOK
<1>6. CASE PollOnce
  BY <1>6, PollOnceType
<1>7. CASE UNCHANGED vars
  BY <1>7 DEF vars, TypeOK
<1>. QED
  BY <1>1, <1>2, <1>3, <1>4, <1>5, <1>6, <1>7 DEF Next

(* Every reachable state of the poller is well typed.                      *)
THEOREM PollerTypeCorrect == Spec => []TypeOK
  BY InitType, NextType, PTL DEF Spec


-----------------------------------------------------------------------------
(* The wheel never runs ahead of the clock.                                *)

(* The elapsed tick count is the elapsed time rounded down.               *)
LEMMA ElapsedTicksDiv ==
  ASSUME NEW d \in Nat
  PROVE  ElapsedTicks(d) = d \div TickDuration
  BY DEF ElapsedTicks, DurationToTicks

LEMMA InitNotAhead == Init => WheelNotAhead
  BY PollerAssumption, DivNat DEF Init, WheelNotAhead

LEMMA NextNotAhead == TypeOK /\ WheelNotAhead /\ [Next]_vars => WheelNotAhead'
<1> SUFFICES ASSUME TypeOK, WheelNotAhead, [Next]_vars PROVE WheelNotAhead'
  OBVIOUS
<1>1. CASE Advance
  <2>1. now \div TickDuration <= (now + 1) \div TickDuration
    BY PollerAssumption, DivMonotone DEF TypeOK
  <2>2. wheelTick \in Nat /\ now \div TickDuration \in Nat /\ (now + 1) \div TickDuration \in Nat
    BY PollerAssumption, DivNat DEF TypeOK
  <2>. QED
    BY <1>1, <2>1, <2>2 DEF Advance, WheelNotAhead
<1>2. CASE PollOnce
  <2>1. wheelTick' = now \div TickDuration
    BY <1>2, PollOnceForm, ElapsedTicksDiv DEF TypeOK
  <2>2. now' = now
    BY <1>2 DEF PollOnce
  <2>. QED
    BY <2>1, <2>2, PollerAssumption, DivNat DEF TypeOK, WheelNotAhead
<1>3. CASE ~Advance /\ ~PollOnce
  <2>1. UNCHANGED <<now, wheelTick>>
    BY <1>3 DEF Next, vars, RegisterSocket, DeregisterSocket, RegisterTimer,
                ReregisterTimer, DeregisterTimer
  <2>. QED
    BY <2>1 DEF WheelNotAhead
<1>. QED
  BY <1>1, <1>2, <1>3

(* The tick count poll_once computes never falls below the wheel's tick,  *)
(* so the u128 subtraction at poller.rs line 109 never underflows.         *)
THEOREM WheelNeverAhead == Spec => []WheelNotAhead
<1>1. Init => TypeOK /\ WheelNotAhead
  BY InitType, InitNotAhead
<1>2. TypeOK /\ WheelNotAhead /\ [Next]_vars => (TypeOK /\ WheelNotAhead)'
  BY NextType, NextNotAhead
<1>. QED
  BY <1>1, <1>2, PTL DEF Spec


-----------------------------------------------------------------------------
(***************************************************************************)
(* One expiry per arming.  FireOnce is not inductive: a timer that fired   *)
(* could fire again if a wheel entry of it were left behind.  The          *)
(* strengthening says why none is: every wheel entry is the current slot   *)
(* of a registered timer (register files one, reregister and deregister    *)
(* remove the old one), and a timer that fired has no entry left (its only *)
(* entry was the one poll_once took).                                      *)
(***************************************************************************)
SlotsMatch ==
  \A e \in wheel : e[1] = timeout[e[2]].slot /\ e[2] \in registered

FiredGone ==
  \A t \in Timers : fired[t] # 0 => \A e \in wheel : e[2] # t

WheelInv == TypeOK /\ SlotsMatch /\ FiredGone /\ FireOnce


(* A timer has at most one wheel entry: the one at its current slot.       *)
LEMMA EntryOf ==
  ASSUME TypeOK, SlotsMatch, NEW e \in wheel
  PROVE  /\ e = <<timeout[e[2]].slot, e[2]>>
         /\ timeout[e[2]].slot # None
         /\ e[2] \in Timers \cap registered
  BY DEF TypeOK, SlotsMatch, None

LEMMA InitWheelInv == Init => WheelInv
  BY InitType DEF Init, WheelInv, SlotsMatch, FiredGone, FireOnce

LEMMA RegisterTimerInv ==
  ASSUME WheelInv, NEW h \in Timers, NEW d \in Durations, RegisterTimer(h, d)
  PROVE  (SlotsMatch /\ FiredGone /\ FireOnce)'
<1> DEFINE entry == WheelAdd(TimerTicks(d), h)
<1>1. /\ h \notin registered
      /\ timeout' = [timeout EXCEPT ![h] = [duration |-> d, start |-> now, slot |-> entry[1]]]
      /\ wheel' = wheel \cup {entry}
      /\ registered' = registered \cup {h}
      /\ fired' = [fired EXCEPT ![h] = 0]
  BY DEF RegisterTimer
<1>2. entry[2] = h
  BY DEF WheelAdd
<1>3. \A e \in wheel : e[2] # h /\ e[2] \in Timers
  BY <1>1, EntryOf DEF WheelInv
<1>4. SlotsMatch'
  BY <1>1, <1>2, <1>3 DEF WheelInv, TypeOK, SlotsMatch
<1>5. FiredGone'
  BY <1>1, <1>2, <1>3 DEF WheelInv, TypeOK, FiredGone
<1>6. FireOnce'
  BY <1>1 DEF WheelInv, TypeOK, FireOnce
<1>. QED
  BY <1>4, <1>5, <1>6


(* After removing a timer's current slot, no entry of it is left.         *)
LEMMA SlotRemoved ==
  ASSUME TypeOK, SlotsMatch, NEW h \in Timers
  PROVE  \A e \in IF timeout[h].slot # None THEN wheel \ {<<timeout[h].slot, h>>} ELSE wheel :
           e[2] # h /\ e \in wheel
  BY EntryOf

LEMMA ReregisterTimerInv ==
  ASSUME WheelInv, NEW h \in Timers, ReregisterTimer(h)
  PROVE  (SlotsMatch /\ FiredGone /\ FireOnce)'
<1> DEFINE t == timeout[h]
           entry == WheelAdd(TimerTicks(t.duration), h)
           rest == IF t.slot # None THEN wheel \ {<<t.slot, h>>} ELSE wheel
<1>1. /\ h \in registered
      /\ timeout' = [timeout EXCEPT ![h] = [t EXCEPT !.start = now, !.slot = entry[1]]]
      /\ wheel' = rest \cup {entry}
      /\ UNCHANGED registered
      /\ fired' = [fired EXCEPT ![h] = 0]
  BY DEF ReregisterTimer
<1>2. entry[2] = h
  BY DEF WheelAdd
<1>3. \A e \in rest : e[2] # h /\ e \in wheel
  BY SlotRemoved DEF WheelInv
<1>4. timeout'[h].slot = entry[1]
  <2>1. t \in TimeoutStates
    BY DEF WheelInv, TypeOK
  <2>. QED
    BY <1>1, <2>1 DEF WheelInv, TypeOK, TimeoutStates
<1>5. SlotsMatch'
  BY <1>1, <1>2, <1>3, <1>4 DEF WheelInv, TypeOK, SlotsMatch
<1>6. FiredGone'
  BY <1>1, <1>2, <1>3 DEF WheelInv, TypeOK, FiredGone
<1>7. FireOnce'
  BY <1>1 DEF WheelInv, TypeOK, FireOnce
<1>. QED
  BY <1>5, <1>6, <1>7

LEMMA DeregisterTimerInv ==
  ASSUME WheelInv, NEW h \in Timers, DeregisterTimer(h)
  PROVE  (SlotsMatch /\ FiredGone /\ FireOnce)'
<1>1. /\ wheel' = IF timeout[h].slot # None THEN wheel \ {<<timeout[h].slot, h>>} ELSE wheel
      /\ registered' = registered \ {h}
      /\ UNCHANGED <<timeout, fired>>
  BY DEF DeregisterTimer
<1>2. \A e \in wheel' : e[2] # h /\ e \in wheel
  BY <1>1, SlotRemoved DEF WheelInv
<1>. QED
  BY <1>1, <1>2 DEF WheelInv, SlotsMatch, FiredGone, FireOnce

LEMMA SocketInv ==
  ASSUME WheelInv, NEW h \in Sockets, RegisterSocket(h) \/ DeregisterSocket(h)
  PROVE  (SlotsMatch /\ FiredGone /\ FireOnce)'
<1>1. /\ UNCHANGED <<wheel, timeout, fired>>
      /\ registered' \in {registered \cup {h}, registered \ {h}}
  BY DEF RegisterSocket, DeregisterSocket
<1>2. \A e \in wheel : e[2] # h
  BY PollerAssumption DEF WheelInv, TypeOK
<1>. QED
  BY <1>1, <1>2 DEF WheelInv, SlotsMatch, FiredGone, FireOnce


LEMMA PollOnceInv ==
  ASSUME WheelInv, PollOnce
  PROVE  (SlotsMatch /\ FiredGone /\ FireOnce)'
<1>1. /\ wheel' = wheel \ Due
      /\ fired' = [t \in Timers |-> IF t \in Expired /\ fired[t] < 2
                                       THEN fired[t] + 1 ELSE fired[t]]
      /\ UNCHANGED <<timeout, registered>>
  BY PollOnceForm DEF WheelInv
<1>2. SlotsMatch'
  BY <1>1 DEF WheelInv, SlotsMatch
<1>3. ASSUME NEW t \in Timers, t \in Expired
      PROVE  fired'[t] = 1 /\ \A e \in wheel' : e[2] # t
  <2>1. PICK d \in Due : d[2] = t
    BY <1>3 DEF Expired
  <2>2. d \in wheel
    BY <2>1 DEF Due
  <2>3. fired[t] = 0
    BY <2>1, <2>2 DEF WheelInv, FiredGone
  <2>4. fired'[t] = 1
    BY <1>1, <1>3, <2>3
  <2>5. ASSUME NEW e \in wheel', e[2] = t PROVE FALSE
    <3>1. e \in wheel /\ e \notin Due
      BY <1>1
    <3>2. e = d
      BY <2>1, <2>2, <2>5, <3>1, EntryOf DEF WheelInv
    <3>. QED
      BY <2>1, <3>1, <3>2
  <2>. QED
    BY <2>4, <2>5
<1>4. ASSUME NEW t \in Timers, t \notin Expired
      PROVE  fired'[t] = fired[t]
  BY <1>1, <1>4
<1>5. FiredGone' /\ FireOnce'
  BY <1>1, <1>3, <1>4 DEF WheelInv, FiredGone, FireOnce
<1>. QED
  BY <1>2, <1>5

LEMMA NextWheelInv == WheelInv /\ [Next]_vars => WheelInv'
<1> SUFFICES ASSUME WheelInv, [Next]_vars PROVE WheelInv'
  OBVIOUS
<1>1. TypeOK'
  BY NextType DEF WheelInv
<1>2. (SlotsMatch /\ FiredGone /\ FireOnce)'
  <2>1. CASE Advance
    BY <2>1 DEF Advance, WheelInv, SlotsMatch, FiredGone, FireOnce
  <2>2. CASE UNCHANGED vars
    BY <2>2 DEF vars, WheelInv, SlotsMatch, FiredGone, FireOnce
  <2>. QED
    BY <2>1, <2>2, SocketInv, RegisterTimerInv, ReregisterTimerInv,
       DeregisterTimerInv, PollOnceInv DEF Next
<1>. QED
  BY <1>1, <1>2 DEF WheelInv

(* A timer's expiry is reported at most once per register or reregister:  *)
(* the wheel never keeps an old slot of a timer that was re-armed or       *)
(* deregistered.                                                           *)
THEOREM FireOnceThm == Spec => []FireOnce
<1>1. []WheelInv => []FireOnce
  BY PTL DEF WheelInv
<1>. QED
  BY InitWheelInv, NextWheelInv, <1>1, PTL DEF Spec

(* poll_once reports only tokens of registered handles: sockets mio        *)
(* reported are registered, and every wheel entry is the current slot of a *)
(* registered timer.                                                       *)
THEOREM EventsOnlyForRegisteredThm == Spec => EventsOnlyForRegistered
<1>1. WheelInv /\ [Next]_vars => [PollOnce => \A e \in events' : e[1] \in registered]_vars
  <2> SUFFICES ASSUME WheelInv, PollOnce PROVE \A e \in events' : e[1] \in registered
    OBVIOUS
  <2>1. PICK ready \in SUBSET (registered \cap Sockets),
             report \in [Sockets -> BOOLEAN \X BOOLEAN] :
          events' = {<<s, Translate(report[s][1], report[s][2])>> : s \in ready}
                      \cup {<<t, {Readable}>> : t \in Expired}
    BY PollOnceForm DEF WheelInv
  <2>2. Expired \subseteq registered
    BY DEF Expired, Due, WheelInv, SlotsMatch
  <2>. QED
    BY <2>1, <2>2
<1>. QED
  BY InitWheelInv, NextWheelInv, <1>1, PTL DEF Spec, EventsOnlyForRegistered

-----------------------------------------------------------------------------
(***************************************************************************)
(* No timer is reported late.  ExpiryNotLate needs two more facts about    *)
(* the wheel entries: each lies ahead of the wheel's tick (register files  *)
(* it at least one tick ahead, poll_once takes every entry up to its new   *)
(* tick), so the catch-up in poll_once can still reach it; and each lies   *)
(* no further than the ticks of its duration, rounded up, past the tick    *)
(* count of its timer's start time (the wheel was not ahead of the clock   *)
(* when it was filed).                                                     *)
(***************************************************************************)
Pending == \A e \in wheel : wheelTick < e[1]

Deadline ==
  \A e \in wheel :
    /\ timeout[e[2]].start \in Nat
    /\ e[1] <= timeout[e[2]].start \div TickDuration + TimerTicks(timeout[e[2]].duration)

LateInv == WheelInv /\ WheelNotAhead /\ Pending /\ Deadline

(* register files a timer at least one tick ahead, and at most one tick    *)
(* more than its duration rounded down.                                    *)
LEMMA TimerTicksBounds ==
  ASSUME NEW d \in Nat \ {0}
  PROVE  TimerTicks(d) \in 1 .. d \div TickDuration + 1
  BY PollerAssumption DEF TimerTicks, DurationToTicks

(* Rounding down is monotone, and loses less than one divisor per term.    *)
LEMMA DivMono ==
  ASSUME NEW a \in Nat, NEW b \in Nat, NEW c \in Nat \ {0}, a <= b
  PROVE  a \div c <= b \div c
  OBVIOUS

LEMMA DivAdd ==
  ASSUME NEW a \in Nat, NEW b \in Nat, NEW c \in Nat \ {0}
  PROVE  a \div c + b \div c + 1 <= (a + b + c) \div c
  OBVIOUS

LEMMA InitLate == Init => LateInv
  BY InitWheelInv, InitNotAhead DEF Init, LateInv, Pending, Deadline

(* A timer armed now: its entry is ahead of the wheel and within its      *)
(* deadline, because the wheel is not ahead of the clock.                  *)
LEMMA ArmedEntry ==
  ASSUME TypeOK, WheelNotAhead, NEW h \in Timers, NEW d \in Durations
  PROVE  LET entry == WheelAdd(TimerTicks(d), h)
         IN  /\ wheelTick < entry[1]
             /\ entry[1] <= now \div TickDuration + TimerTicks(d)
             /\ entry[2] = h
<1>1. TimerTicks(d) \in 1 .. d \div TickDuration + 1
  BY PollerAssumption, TimerTicksBounds
<1>2. now \div TickDuration \in Nat
  BY PollerAssumption, DivNat DEF TypeOK
<1>. QED
  BY <1>1, <1>2 DEF TypeOK, WheelNotAhead, WheelAdd

LEMMA RegisterTimerLate ==
  ASSUME LateInv, NEW h \in Timers, NEW d \in Durations, RegisterTimer(h, d)
  PROVE  (Pending /\ Deadline)'
<1> DEFINE entry == WheelAdd(TimerTicks(d), h)
<1>1. /\ h \notin registered
      /\ timeout' = [timeout EXCEPT ![h] = [duration |-> d, start |-> now, slot |-> entry[1]]]
      /\ wheel' = wheel \cup {entry}
      /\ UNCHANGED wheelTick
  BY DEF RegisterTimer
<1>2. \A e \in wheel : e[2] # h
  BY <1>1, EntryOf DEF LateInv, WheelInv
<1>3. /\ wheelTick < entry[1]
      /\ entry[1] <= now \div TickDuration + TimerTicks(d)
      /\ entry[2] = h
  BY ArmedEntry DEF LateInv, WheelInv
<1>4. now \in Nat
  BY DEF LateInv, WheelInv, TypeOK
<1>5. \A e \in wheel : timeout'[e[2]] = timeout[e[2]]
  BY <1>1, <1>2
<1>6. timeout'[h] = [duration |-> d, start |-> now, slot |-> entry[1]]
  BY <1>1 DEF LateInv, WheelInv, TypeOK
<1>. QED
  BY <1>1, <1>3, <1>4, <1>5, <1>6 DEF LateInv, Pending, Deadline

LEMMA ReregisterTimerLate ==
  ASSUME LateInv, NEW h \in Timers, ReregisterTimer(h)
  PROVE  (Pending /\ Deadline)'
<1> DEFINE t == timeout[h]
           entry == WheelAdd(TimerTicks(t.duration), h)
           rest == IF t.slot # None THEN wheel \ {<<t.slot, h>>} ELSE wheel
<1>1. /\ timeout' = [timeout EXCEPT ![h] = [t EXCEPT !.start = now, !.slot = entry[1]]]
      /\ wheel' = rest \cup {entry}
      /\ UNCHANGED wheelTick
  BY DEF ReregisterTimer
<1>2. \A e \in rest : e[2] # h /\ e \in wheel
  BY SlotRemoved DEF LateInv, WheelInv
<1>3. t \in TimeoutStates
  BY DEF LateInv, WheelInv, TypeOK
<1>4. /\ wheelTick < entry[1]
      /\ entry[1] <= now \div TickDuration + TimerTicks(t.duration)
      /\ entry[2] = h
  BY <1>3, ArmedEntry DEF LateInv, WheelInv, TimeoutStates
<1>5. timeout'[h].start = now /\ timeout'[h].duration = t.duration
  BY <1>1, <1>3 DEF LateInv, WheelInv, TypeOK, TimeoutStates
<1>6. \A e \in rest : timeout'[e[2]] = timeout[e[2]]
  BY <1>1, <1>2
<1>7. now \in Nat
  BY DEF LateInv, WheelInv, TypeOK
<1>. QED
  BY <1>1, <1>2, <1>4, <1>5, <1>6, <1>7 DEF LateInv, Pending, Deadline

LEMMA PollOnceLate ==
  ASSUME LateInv, PollOnce
  PROVE  (Pending /\ Deadline)'
<1>1. /\ wheelTick' = ElapsedTicks(now)
      /\ wheel' = wheel \ Due
      /\ UNCHANGED timeout
  BY PollOnceForm DEF LateInv, WheelInv
<1>2. Pending'
  <2>1. ElapsedTicks(now) \in Nat /\ \A e \in wheel : e[1] \in Nat
    BY ElapsedTicksNat DEF LateInv, WheelInv, TypeOK
  <2>. QED
    BY <1>1, <2>1 DEF LateInv, Pending, Due
<1>3. Deadline'
  BY <1>1 DEF LateInv, Deadline
<1>. QED
  BY <1>2, <1>3

LEMMA NextLate == LateInv /\ [Next]_vars => LateInv'
<1> SUFFICES ASSUME LateInv, [Next]_vars PROVE LateInv'
  OBVIOUS
<1>1. WheelInv' /\ WheelNotAhead'
  BY NextWheelInv, NextNotAhead DEF LateInv, WheelInv
<1>2. (Pending /\ Deadline)'
  <2>1. CASE Advance \/ UNCHANGED vars
    BY <2>1 DEF Advance, vars, LateInv, Pending, Deadline
  <2>2. ASSUME NEW h \in Sockets, RegisterSocket(h) \/ DeregisterSocket(h)
        PROVE  (Pending /\ Deadline)'
    BY <2>2 DEF RegisterSocket, DeregisterSocket, LateInv, Pending, Deadline
  <2>3. ASSUME NEW h \in Timers, DeregisterTimer(h)
        PROVE  (Pending /\ Deadline)'
    <3>1. wheel' \subseteq wheel /\ UNCHANGED <<wheelTick, timeout>>
      BY <2>3 DEF DeregisterTimer
    <3>. QED
      BY <3>1 DEF LateInv, Pending, Deadline
  <2>. QED
    BY <2>1, <2>2, <2>3, RegisterTimerLate, ReregisterTimerLate, PollOnceLate DEF Next
<1>. QED
  BY <1>1, <1>2 DEF LateInv

(* A wheel entry of a timer armed at least its duration plus a tick ago is *)
(* due at the current elapsed tick count.                                  *)
LEMMA OverdueIsDue ==
  ASSUME LateInv, NEW e \in wheel,
         now - timeout[e[2]].start >= timeout[e[2]].duration + TickDuration
  PROVE  e \in Due
<1> DEFINE st == timeout[e[2]].start
           d == timeout[e[2]].duration
<1>1. e[2] \in Timers /\ st \in Nat /\ d \in Nat \ {0} /\ now \in Nat /\ e[1] \in Nat
  <2>1. e[2] \in Timers /\ e[1] \in Nat /\ now \in Nat
    BY DEF LateInv, WheelInv, TypeOK
  <2>2. timeout[e[2]] \in TimeoutStates
    BY <2>1 DEF LateInv, WheelInv, TypeOK
  <2>3. d \in Durations
    BY <2>2 DEF TimeoutStates
  <2>4. st \in Nat
    BY DEF LateInv, Deadline
  <2>. QED
    BY <2>1, <2>3, <2>4, PollerAssumption
<1>2. e[1] <= st \div TickDuration + TimerTicks(d)
  BY DEF LateInv, Deadline
<1>3. TimerTicks(d) <= d \div TickDuration + 1
  BY <1>1, TimerTicksBounds
<1>4. st \div TickDuration + d \div TickDuration + 1 <= (st + d + TickDuration) \div TickDuration
  BY <1>1, PollerAssumption, DivAdd
<1>5. (st + d + TickDuration) \div TickDuration <= now \div TickDuration
  <2>1. st + d + TickDuration \in Nat /\ st + d + TickDuration <= now
    BY <1>1, PollerAssumption
  <2>. QED
    BY <1>1, <2>1, PollerAssumption, DivMono
<1>6. e[1] <= ElapsedTicks(now)
  <2>1. ElapsedTicks(now) = now \div TickDuration
    BY <1>1, ElapsedTicksDiv
  <2>2. st \div TickDuration \in Nat /\ d \div TickDuration \in Nat /\ TimerTicks(d) \in Nat
        /\ (st + d + TickDuration) \div TickDuration \in Nat /\ now \div TickDuration \in Nat
    <3>1. st + d + TickDuration \in Nat
      BY <1>1, PollerAssumption
    <3>. QED
      BY <1>1, <3>1, PollerAssumption, DivNat, TimerTicksNat
  <2>. QED
    BY <1>1, <1>2, <1>3, <1>4, <1>5, <2>1, <2>2
<1>. QED
  BY <1>6 DEF LateInv, Pending, Due

(***************************************************************************)
(* poll_once never reports a timer later than a tick after its duration:   *)
(* every timer still in the wheel that was armed at least its duration     *)
(* plus one tick before the poll is reported Readable by it, for every     *)
(* tick duration, set of durations and u32 range.                          *)
(***************************************************************************)
THEOREM ExpiryNotLateThm == Spec => ExpiryNotLate
<1>1. LateInv /\ [Next]_vars =>
        [PollOnce =>
           \A t \in Timers :
             (\E e \in wheel : e[2] = t) /\ now - timeout[t].start >= timeout[t].duration + TickDuration
               => <<t, {Readable}>> \in events']_vars
  <2> SUFFICES ASSUME LateInv, PollOnce, NEW t \in Timers, NEW e \in wheel, e[2] = t,
                      now - timeout[t].start >= timeout[t].duration + TickDuration
               PROVE  <<t, {Readable}>> \in events'
    OBVIOUS
  <2>1. t \in Expired
    BY OverdueIsDue DEF Expired
  <2>2. PICK ready \in SUBSET (registered \cap Sockets),
             report \in [Sockets -> BOOLEAN \X BOOLEAN] :
          events' = {<<s, Translate(report[s][1], report[s][2])>> : s \in ready}
                      \cup {<<u, {Readable}>> : u \in Expired}
    BY PollOnceForm DEF LateInv, WheelInv
  <2>. QED
    BY <2>1, <2>2
<1>. QED
  BY InitLate, NextLate, <1>1, PTL DEF Spec, ExpiryNotLate

=============================================================================
